---- MODULE Spec2Model ----
(***************************************************************************)
(* The duel mini-game of chewie-bot: DuelEvent (events/duelEvent.ts), the  *)
(* chat commands that drive it (!duel, !accept, !rock/!paper/!scissors)    *)
(* and the one-shot timers of the event engine.                            *)
(*                                                                         *)
(* Every chat command and every timer callback runs to completion before   *)
(* the next one starts (single-threaded event loop), so each is one        *)
(* action.  The handlers are written as operators on a record s holding    *)
(* the whole program state, composed in the order of the statements of     *)
(* the code.  The durations of the delays are not modelled: a pending      *)
(* callback may fire at any later step.                                    *)
(*                                                                         *)
(* Arrays are 0-based in the code and 1-based here: participants[0] of the *)
(* code is participants[1] below, participants[1] is participants[2].      *)
(***************************************************************************)
EXTENDS Integers, Sequences, FiniteSets, TLC

VARIABLES
    sys,    \* the program state: a record of the fields defined below
    ncmd,   \* number of chat commands handled so far
    last,   \* the handler that ran last, and the duel it acted on
    svc,    \* SongService, the users it reads and the calls it has pending
    ups     \* UserPermissionService: the stored user levels and its pending calls

vars == <<sys, ncmd, last, svc, ups>>

\* The fields of the program state.
duels == sys.duels                  \* every DuelEvent instance started, by instance number
runningEvents == sys.runningEvents  \* EventService's registry: events started and not yet deregistered
points == sys.points                \* the users' balances (UserService)
pTimer == sys.pTimer                \* per duel: the participation-period callback is still pending
wTimers == sys.wTimers              \* per duel: number of pending waitForWeaponChoice continuations
cTimers == sys.cTimers              \* per duel: number of pending cooldown callbacks
chat == sys.chat                    \* per duel: number of chat messages sent, by kind of message
policyMsgs == sys.policyMsgs        \* rejection strings of startEvent sent, by kind and addressee
whispers == sys.whispers            \* per user: number of "Your current weapon is" whispers
hist == sys.hist                    \* per duel: what the duel did to the balances, the weapon inputs
heists == sys.heists                \* every BankheistEvent instance started, by instance number
hpTimer == sys.hpTimer              \* per bankheist: the participation-period callback is still pending
hcTimers == sys.hcTimers            \* per bankheist: number of pending cooldown callbacks
heistMsgs == sys.heistMsgs          \* chat messages of the bankheist command and its events, by kind

----------------------------------------------------------------------------
(* Bounds of the model *)

MaxDuels == 2
MaxHeists == 2
MaxCommands == 5

Users == {"alice", "bob", "carol"}
NoUser == "nobody"
\* The inputs of !duel: <<challenger, target (NoUser: an open duel), wager>>.
DuelInputs == {<<"alice", "bob", 5>>, <<"alice", NoUser, 15>>, <<"carol", NoUser, 10>>}
\* The inputs of the weapon command: <<channel ("": a whisper), user, argument>>.
WeaponArgs == {"rock", "paper", "scissors"}
PublicChannel == "#chewiemelodies"
WeaponInputs == {<<"", u, w>> : u \in Users, w \in WeaponArgs}
                   \cup {<<PublicChannel, "bob", "rock">>}
\* The inputs of !bankheist: <<user, wager>>; carol does not hold her wager.
HeistInputs == {<<"alice", 5>>, <<"bob", 5>>, <<"carol", 20>>}
StartPoints == [u \in Users |-> IF u = "carol" THEN 10 ELSE 40]

----------------------------------------------------------------------------
(* Values *)

Weapons == {"Rock", "Paper", "Scissors"}
WeaponNone == "None"

DuelMsgKinds == {"challenge", "openChallenge", "notAnswered", "targetNotAnswered",
                 "rudeInitiator", "ranAway", "tie", "bothLose", "weaponWin", "wins",
                 "ready", "timeToDuel", "notEnough"}
PolicyMsgKinds == {"justFinished", "underway"}
HeistMsgKinds == {"notEnoughChews", "invalidWager", "alreadyJoined", "heistUnderway",
                  "heistCooldown", "heistStarted", "heistResult", "heistReady"}

NoChat == [k \in DuelMsgKinds |-> 0]
NoHist == [net |-> [u \in Users |-> 0], deduct |-> 0, payout |-> 0, refund |-> 0,
           outcome |-> "none", lastSet |-> [u \in Users |-> WeaponNone],
           overwrites |-> 0, cooldowns |-> 0]

State == sys

DuelRef(d) == [kind |-> "duel", id |-> d]
HeistRef(h) == [kind |-> "heist", id |-> h]

----------------------------------------------------------------------------
(* Collaborators that are not part of the duel code *)

\* TwitchService.sendMessage through the duel's sendMessage callback.
sendMessage(s, d, kind) == [s EXCEPT !.chat[d][kind] = @ + 1]

\* TwitchService.sendWhisper.
sendWhisper(s, user) == [s EXCEPT !.whispers[user] = @ + 1]

\* UserService.changeUsersPoints(users, delta): adds delta to every listed user.
\* d is the duel on whose behalf the balances change (history only).
changeUsersPoints(s, d, users, delta) ==
    LET times(u) == Cardinality({i \in 1..Len(users) : users[i] = u})
    IN [s EXCEPT !.points = [u \in Users |-> @[u] + delta * times(u)],
                 !.hist[d].net = [u \in Users |-> @[u] + delta * times(u)]]

\* UserService.changeUserPoints(user, delta).
changeUserPoints(s, d, user, delta) == changeUsersPoints(s, d, <<user>>, delta)

\* EventService.stopEvent(event): the event is ended and leaves the registry at once.
stopEvent(s, d) ==
    [s EXCEPT !.duels[d].state = "Ended",
              !.runningEvents = SelectSeq(@, LAMBDA e : e # DuelRef(d))]

\* EventService.stopEventStartCooldown(event): the event is ended, stays in the
\* registry (blocking new starts) and a cooldown callback is scheduled.
stopEventStartCooldown(s, d) ==
    [s EXCEPT !.duels[d].state = "Ended",
              !.cTimers[d] = @ + 1,
              !.hist[d].cooldowns = @ + 1]

----------------------------------------------------------------------------
(* DuelEvent *)

DuelEventParticipant(user, wager, accepted) ==
    [user |-> user, wager |-> wager, accepted |-> accepted, weapon |-> WeaponNone]

\* constructor
NewDuelEvent(initiatingUser, targetUser, wager) ==
    [state |-> IF targetUser # NoUser THEN "BoardingCompleted" ELSE "Open",
     participants |->
        IF targetUser # NoUser
        THEN <<DuelEventParticipant(initiatingUser, wager, TRUE),
               DuelEventParticipant(targetUser, wager, FALSE)>>
        ELSE <<DuelEventParticipant(initiatingUser, wager, TRUE)>>,
     wager |-> wager]

\* start()
start(s, d) ==
    IF Len(s.duels[d].participants) > 1
    THEN sendMessage(s, d, "challenge")
    ELSE sendMessage(s, d, "openChallenge")

\* participationPeriodEnded() deciding by the participants alone, whatever the state.
participationPeriodEnded_NoStateCheck(s, d) ==
    LET duel == s.duels[d]
    IN IF Len(duel.participants) < 2
       THEN stopEvent(sendMessage(s, d, "notAnswered"), d)
       ELSE IF ~duel.participants[2].accepted
       THEN stopEvent(sendMessage(s, d, "targetNotAnswered"), d)
       ELSE s

\* participationPeriodEnded() calling off the duel with a cooldown.
participationPeriodEnded_Cooldown(s, d) ==
    LET duel == s.duels[d]
    IN IF duel.state = "Open"
       THEN stopEventStartCooldown(sendMessage(s, d, "notAnswered"), d)
       ELSE IF duel.state = "BoardingCompleted"
       THEN IF Len(duel.participants) < 2
            THEN s
            ELSE IF ~duel.participants[2].accepted
                 THEN stopEventStartCooldown(sendMessage(s, d, "targetNotAnswered"), d)
                 ELSE s
       ELSE s

\* participationPeriodEnded().  Reading participants[1].accepted of a duel with a
\* single participant throws a TypeError: the callback ends there.
participationPeriodEnded(s, d) ==
    LET duel == s.duels[d]
    IN IF duel.state = "Open"
       THEN stopEvent(sendMessage(s, d, "notAnswered"), d)
       ELSE IF duel.state = "BoardingCompleted"
       THEN IF Len(duel.participants) < 2
            THEN s
            ELSE IF ~duel.participants[2].accepted
                 THEN stopEvent(sendMessage(s, d, "targetNotAnswered"), d)
                 ELSE s
       ELSE s

\* checkForOngoingEvent vetoing the start beside a running event of any kind.
checkForOngoingEvent_AnyKind(s, runningEvent) ==
    IF runningEvent.kind = "duel"
    THEN IF s.duels[runningEvent.id].state = "Ended"
         THEN [allowed |-> FALSE, msg |-> "justFinished"]
         ELSE [allowed |-> FALSE, msg |-> "underway"]
    ELSE [allowed |-> FALSE, msg |-> "underway"]

\* checkForOngoingEvent letting a new duel start beside a duel that is still Open.
checkForOngoingEvent_OpenAllowed(s, runningEvent) ==
    IF runningEvent.kind = "duel"
    THEN IF s.duels[runningEvent.id].state = "Ended"
         THEN [allowed |-> FALSE, msg |-> "justFinished"]
         ELSE IF s.duels[runningEvent.id].state = "Open"
         THEN [allowed |-> TRUE, msg |-> ""]
         ELSE [allowed |-> FALSE, msg |-> "underway"]
    ELSE [allowed |-> TRUE, msg |-> ""]

\* checkForOngoingEvent blocking only while the running duel has not ended.
checkForOngoingEvent_EndedAllowed(s, runningEvent) ==
    IF runningEvent.kind = "duel" /\ s.duels[runningEvent.id].state # "Ended"
    THEN [allowed |-> FALSE, msg |-> "underway"]
    ELSE [allowed |-> TRUE, msg |-> ""]

\* checkForOngoingEvent(runningEvent, user): [allowed, message]
checkForOngoingEvent(s, runningEvent) ==
    IF runningEvent.kind = "duel"
    THEN IF s.duels[runningEvent.id].state = "Ended"
         THEN [allowed |-> FALSE, msg |-> "justFinished"]
         ELSE [allowed |-> FALSE, msg |-> "underway"]
    ELSE [allowed |-> TRUE, msg |-> ""]

\* getParticipant taking the first participant whoever asks.
getParticipant_AnyUser(duel, user) ==
    IF Len(duel.participants) > 0 THEN 1 ELSE 0

\* getParticipant(user): the index of the first participant with that user name, 0 if none.
getParticipant(duel, user) ==
    LET hits == {i \in 1..Len(duel.participants) : duel.participants[i].user = user}
    IN IF hits = {} THEN 0 ELSE CHOOSE i \in hits : \A j \in hits : i <= j

\* setWeapon keeping the first weapon chosen.
setWeapon_FirstChoiceLocks(duel, user, weapon) ==
    LET i == getParticipant(duel, user)
    IN IF i # 0
       THEN [duel |-> IF duel.participants[i].weapon = WeaponNone
                      THEN [duel EXCEPT !.participants[i].weapon = weapon]
                      ELSE duel,
             ok |-> TRUE]
       ELSE [duel |-> duel, ok |-> FALSE]

\* setWeapon(user, weapon): [duel, ok]
setWeapon(duel, user, weapon) ==
    LET i == getParticipant(duel, user)
    IN IF i # 0
       THEN [duel |-> [duel EXCEPT !.participants[i].weapon = weapon], ok |-> TRUE]
       ELSE [duel |-> duel, ok |-> FALSE]

\* canAccept comparing the balance with zero instead of the wager.
canAccept_AnyBalance(s, d, user) ==
    IF s.points[user] < 0
    THEN [ok |-> FALSE, msg |-> "notEnough"]
    ELSE [ok |-> TRUE, msg |-> ""]

\* canAccept(user): user.points is the balance of the user issuing the command.
canAccept(s, d, user) ==
    IF s.points[user] < s.duels[d].wager
    THEN [ok |-> FALSE, msg |-> "notEnough"]
    ELSE [ok |-> TRUE, msg |-> ""]

\* accept(user), up to the await in waitForWeaponChoice: [s, ok, msg]
accept(s, d, user) ==
    LET can == canAccept(s, d, user)
    IN IF can.ok
       THEN LET i  == getParticipant(s.duels[d], user)
                s1 == [s EXCEPT !.duels[d].state = "BoardingCompleted"]
                s2 == IF i = 0
                      THEN [s1 EXCEPT !.duels[d].participants =
                               Append(@, DuelEventParticipant(user, s.duels[d].wager, TRUE))]
                      ELSE [s1 EXCEPT !.duels[d].participants[i].accepted = TRUE]
                users == [j \in 1..Len(s2.duels[d].participants) |->
                               s2.duels[d].participants[j].user]
                s3 == changeUsersPoints(s2, d, users, -s.duels[d].wager)
                s4 == [s3 EXCEPT !.hist[d].deduct = @ + 1,
                                 !.wTimers[d] = @ + 1]
            IN [s |-> s4, ok |-> TRUE, msg |-> ""]
       ELSE [s |-> s, ok |-> FALSE, msg |-> can.msg]

\* returnChews()
returnChews(s, d) ==
    LET users == [j \in 1..Len(s.duels[d].participants) |-> s.duels[d].participants[j].user]
    IN [changeUsersPoints(s, d, users, s.duels[d].wager) EXCEPT !.hist[d].refund = @ + 1]

\* Math.round(wager * 0.1) for a non-negative integer wager: floor(wager / 10 + 1/2).
chewsLost(wager) == (wager + 5) \div 10

\* The first participant wins with Paper over Rock, Rock over Scissors, Scissors over Paper.
firstWins(w0, w1) ==
    \/ w0 = "Paper" /\ w1 = "Rock"
    \/ w0 = "Rock" /\ w1 = "Scissors"
    \/ w0 = "Scissors" /\ w1 = "Paper"

\* startDuel() announcing the weapons but not the result.
startDuel_NoResultMessage(s, d) ==
    LET p  == s.duels[d].participants
        w  == s.duels[d].wager
        s1 == stopEventStartCooldown(s, d)
        users == [j \in 1..Len(p) |-> p[j].user]
    IN IF p[1].weapon = p[2].weapon
       THEN LET s2 == IF p[1].weapon \in Weapons THEN sendMessage(s1, d, "tie") ELSE s1
                s4 == changeUsersPoints(s2, d, users, w - chewsLost(w))
            IN [s4 EXCEPT !.hist[d].payout = @ + 1, !.hist[d].outcome = "tie"]
       ELSE LET winner == IF firstWins(p[1].weapon, p[2].weapon) THEN p[1] ELSE p[2]
                s2 == changeUserPoints(s1, d, winner.user, w * 2)
                s3 == IF winner.weapon \in Weapons THEN sendMessage(s2, d, "weaponWin") ELSE s2
            IN [s3 EXCEPT !.hist[d].payout = @ + 1, !.hist[d].outcome = winner.user]

\* startDuel()
startDuel(s, d) ==
    LET p  == s.duels[d].participants
        w  == s.duels[d].wager
        s1 == stopEventStartCooldown(s, d)
        users == [j \in 1..Len(p) |-> p[j].user]
    IN IF p[1].weapon = p[2].weapon
       THEN LET s2 == IF p[1].weapon \in Weapons THEN sendMessage(s1, d, "tie") ELSE s1
                s3 == sendMessage(s2, d, "bothLose")
                s4 == changeUsersPoints(s3, d, users, w - chewsLost(w))
            IN [s4 EXCEPT !.hist[d].payout = @ + 1, !.hist[d].outcome = "tie"]
       ELSE LET winner == IF firstWins(p[1].weapon, p[2].weapon) THEN p[1] ELSE p[2]
                s2 == changeUserPoints(s1, d, winner.user, w * 2)
                s3 == IF winner.weapon \in Weapons THEN sendMessage(s2, d, "weaponWin") ELSE s2
                s4 == sendMessage(s3, d, "wins")
            IN [s4 EXCEPT !.hist[d].payout = @ + 1, !.hist[d].outcome = winner.user]

\* waitForWeaponChoice() looking at the weapon of the first participant only.
waitForWeaponChoice_FirstWeaponOnly(s, d) ==
    LET p == s.duels[d].participants
    IN IF p[1].weapon = WeaponNone
       THEN returnChews(sendMessage(stopEvent(s, d), d, "rudeInitiator"), d)
       ELSE IF Len(p) < 2
       THEN s
       ELSE startDuel(s, d)

\* waitForWeaponChoice(), after the await.  With a single participant whose
\* weapon is set, reading participants[1].weapon throws a TypeError.
waitForWeaponChoice(s, d) ==
    LET p == s.duels[d].participants
    IN IF p[1].weapon = WeaponNone
       THEN returnChews(sendMessage(stopEvent(s, d), d, "rudeInitiator"), d)
       ELSE IF Len(p) < 2
       THEN s
       ELSE IF p[2].weapon = WeaponNone
       THEN returnChews(sendMessage(stopEvent(s, d), d, "ranAway"), d)
       ELSE startDuel(s, d)

\* onCooldownComplete()
onCooldownComplete(s, d) == sendMessage(s, d, "ready")

----------------------------------------------------------------------------
(* EventService.startEvent and the chat commands *)

\* The message of the first running event that vetoes the start, "" if none does.
firstVeto(s) ==
    LET bad == {i \in 1..Len(s.runningEvents) : ~checkForOngoingEvent(s, s.runningEvents[i]).allowed}
    IN IF bad = {} THEN ""
       ELSE checkForOngoingEvent(s, s.runningEvents[CHOOSE i \in bad : \A j \in bad : i <= j]).msg

\* startEvent(event, user) for a new duel: registers it, calls start() and
\* schedules the participation-period callback.
startEvent(s, duel) ==
    LET d  == Len(s.duels) + 1
        s1 == [s EXCEPT !.duels = Append(@, duel),
                        !.runningEvents = Append(@, DuelRef(d)),
                        !.pTimer = Append(@, TRUE),
                        !.wTimers = Append(@, 0),
                        !.cTimers = Append(@, 0),
                        !.chat = Append(@, NoChat),
                        !.hist = Append(@, NoHist)]
    IN start(s1, d)

\* DuelCommand: starts a duel, or relays the rejection string of startEvent.
DuelCommand(s, user, target, wager) ==
    LET veto == firstVeto(s)
    IN IF veto # ""
       THEN [s EXCEPT !.policyMsgs[veto][user] = @ + 1]
       ELSE startEvent(s, NewDuelEvent(user, target, wager))

\* EventService.getEvents(type): the running events, of the given kind only
\* when a type is passed ("" stands for a call without the argument).
getEvents(s, type) ==
    IF type = "" THEN s.runningEvents
    ELSE SelectSeq(s.runningEvents, LAMBDA e : e.kind = type)

NoEvent == [kind |-> "none", id |-> 0]

\* The event instance a registry entry refers to: its state and participants.
eventAt(s, e) ==
    IF e.kind = "duel"
    THEN [state |-> s.duels[e.id].state,
          users |-> [j \in 1..Len(s.duels[e.id].participants) |-> s.duels[e.id].participants[j].user]]
    ELSE [state |-> s.heists[e.id].state,
          users |-> [j \in 1..Len(s.heists[e.id].participants) |-> s.heists[e.id].participants[j].user]]

\* AcceptCommand.execute: the event acceptDuel is called with, NoEvent if none.
\* getEvents is called without a type.
acceptEvent(s, user) ==
    LET runningDuels == getEvents(s, "")
        at(i) == eventAt(s, runningDuels[i])
        aimed == {i \in 1..Len(runningDuels) : /\ at(i).state = "BoardingCompleted"
                                               /\ Len(at(i).users) > 1
                                               /\ at(i).users[2] = user}
        open  == {i \in 1..Len(runningDuels) : /\ at(i).state = "Open"
                                               /\ Len(at(i).users) = 1}
        first(S) == CHOOSE i \in S : \A j \in S : i <= j
    IN IF aimed # {} THEN runningDuels[first(aimed)]
       ELSE IF open # {} THEN runningDuels[first(open)]
       ELSE NoEvent

\* AcceptCommand.execute taking a waiting duel whoever it is aimed at.
acceptTarget_AnyUser(s, user) ==
    LET running == {i \in 1..Len(s.runningEvents) : s.runningEvents[i].kind = "duel"}
        duelAt(i) == s.duels[s.runningEvents[i].id]
        aimed == {i \in running : /\ duelAt(i).state = "BoardingCompleted"
                                  /\ Len(duelAt(i).participants) > 1}
        open  == {i \in running : /\ duelAt(i).state = "Open"
                                  /\ Len(duelAt(i).participants) = 1}
        first(S) == CHOOSE i \in S : \A j \in S : i <= j
    IN IF aimed # {} THEN s.runningEvents[first(aimed)].id
       ELSE IF open # {} THEN s.runningEvents[first(open)].id
       ELSE 0

\* AcceptCommand.execute: the duel whose accept runs, 0 if none.  An event
\* that is not a duel has no accept method: the call throws a TypeError and
\* the command ends there.
acceptTarget(s, user) ==
    LET e == acceptEvent(s, user)
    IN IF e.kind = "duel" THEN e.id ELSE 0

\* AcceptCommand.acceptDuel.  Building the success message reads participants[1]:
\* with a single participant that throws and no message is sent.
acceptDuel(s, d, user) ==
    LET r == accept(s, d, user)
    IN IF r.ok
       THEN IF Len(r.s.duels[d].participants) > 1
            THEN sendMessage(r.s, d, "timeToDuel")
            ELSE r.s
       ELSE sendMessage(r.s, d, r.msg)

AcceptCommand(s, user) ==
    LET d == acceptTarget(s, user)
    IN IF d = 0 THEN s ELSE acceptDuel(s, d, user)

\* WeaponCommand.chooseWeapon: the event at which the loop ends, NoEvent if it
\* runs through: the first BoardingCompleted event that is a duel whose
\* setWeapon succeeds, or that is no duel.  getEvents is called without a type.
weaponEvent(s, user, weapon) ==
    LET runningDuels == getEvents(s, "")
        hits == {i \in 1..Len(runningDuels) :
                    /\ eventAt(s, runningDuels[i]).state = "BoardingCompleted"
                    /\ runningDuels[i].kind = "duel"
                           => setWeapon(s.duels[runningDuels[i].id], user, weapon).ok}
    IN IF hits = {} THEN NoEvent
       ELSE runningDuels[CHOOSE i \in hits : \A j \in hits : i <= j]

\* WeaponCommand.chooseWeapon: the duel whose setWeapon succeeds, 0 if none.
\* An event that is not a duel has no setWeapon method: the call throws a
\* TypeError and the command ends there.
weaponTarget(s, user, weapon) ==
    LET e == weaponEvent(s, user, weapon)
    IN IF e.kind = "duel" THEN e.id ELSE 0

\* chooseWeapon taking the choice from any channel.
chooseWeapon_AnyChannel(s, channel, user, weapon) ==
    LET d == weaponTarget(s, user, weapon)
    IN IF d = 0 THEN s
       ELSE sendWhisper([s EXCEPT !.duels[d] = setWeapon(@, user, weapon).duel,
                                  !.hist[d].lastSet[user] = weapon], user)

\* WeaponCommand.chooseWeapon: a non-empty channel is the public chat.
chooseWeapon(s, channel, user, weapon) ==
    IF channel # ""
    THEN s
    ELSE LET d == weaponTarget(s, user, weapon)
         IN IF d = 0 THEN s
            ELSE sendWhisper([s EXCEPT !.duels[d] = setWeapon(@, user, weapon).duel,
                                       !.hist[d].lastSet[user] = weapon,
                                       !.hist[d].overwrites =
                                           IF s.hist[d].lastSet[user] \in Weapons \ {weapon}
                                           THEN @ + 1 ELSE @], user)

\* WeaponCommand.execute: the argument is matched in lower case.
WeaponCommand(s, channel, user, weapon) ==
    IF weapon = "rock" THEN chooseWeapon(s, channel, user, "Rock")
    ELSE IF weapon = "scissors" THEN chooseWeapon(s, channel, user, "Scissors")
    ELSE IF weapon = "paper" THEN chooseWeapon(s, channel, user, "Paper")
    ELSE s

----------------------------------------------------------------------------
(* The bankheist command.  BankheistEvent follows the general shape of a      *)
(* participation event; what a bankheist does to the balances is not modelled. *)

\* TwitchService.sendMessage for the messages around a bankheist.
heistSay(s, kind) == [s EXCEPT !.heistMsgs[kind] = @ + 1]

\* EventHelper.validatePoints(user, wager): [ok, msg]
validatePoints(s, user, wager) ==
    IF wager <= 0 THEN [ok |-> FALSE, msg |-> "invalidWager"]
    ELSE IF s.points[user] < wager THEN [ok |-> FALSE, msg |-> "notEnoughChews"]
    ELSE [ok |-> TRUE, msg |-> ""]

\* new BankheistEvent(..., user, wager): Open, with the initiator as first participant.
NewBankheistEvent(user, wager) ==
    [state |-> "Open", participants |-> <<[user |-> user, wager |-> wager]>>]

\* addParticipant(participant): [s, ok]; false when the user has already joined.
addParticipant(s, h, user, wager) ==
    IF \E i \in 1..Len(s.heists[h].participants) : s.heists[h].participants[i].user = user
    THEN [s |-> s, ok |-> FALSE]
    ELSE [s |-> [s EXCEPT !.heists[h].participants = Append(@, [user |-> user, wager |-> wager])],
          ok |-> TRUE]

\* BankheistEvent.checkForOngoingEvent(runningEvent, user): [allowed, message]
heistCheckForOngoingEvent(s, runningEvent) ==
    IF runningEvent.kind = "heist"
    THEN IF s.heists[runningEvent.id].state = "Ended"
         THEN [allowed |-> FALSE, msg |-> "heistCooldown"]
         ELSE [allowed |-> FALSE, msg |-> "heistUnderway"]
    ELSE [allowed |-> TRUE, msg |-> ""]

\* The message of the first running event that vetoes a new bankheist, "" if none does.
heistVeto(s) ==
    LET bad == {i \in 1..Len(s.runningEvents) :
                   ~heistCheckForOngoingEvent(s, s.runningEvents[i]).allowed}
    IN IF bad = {} THEN ""
       ELSE heistCheckForOngoingEvent(s, s.runningEvents[CHOOSE i \in bad : \A j \in bad : i <= j]).msg

\* startEvent(bankheist, user): the rejection string (a value without a state),
\* or the event, then registered, started and with its participation timer running.
startBankheist(s, heist) ==
    LET veto == heistVeto(s)
        h == Len(s.heists) + 1
    IN IF veto # ""
       THEN [s |-> s, value |-> veto, state |-> "undefined"]
       ELSE [s |-> heistSay([s EXCEPT !.heists = Append(@, heist),
                                      !.runningEvents = Append(@, HeistRef(h)),
                                      !.hpTimer = Append(@, TRUE),
                                      !.hcTimers = Append(@, 0)], "heistStarted"),
             value |-> "", state |-> heist.state]

\* isEvent(eventResult) of BankheistCommand.executeInternal
isEvent(eventResult) == eventResult.state # "undefined"

\* The first Open bankheist of getEvents(BankheistEvent), 0 if none.
heistInProgress(s) ==
    LET open == {i \in 1..Len(s.runningEvents) :
                    /\ s.runningEvents[i].kind = "heist"
                    /\ s.heists[s.runningEvents[i].id].state = "Open"}
    IN IF open = {} THEN 0
       ELSE s.runningEvents[CHOOSE i \in open : \A j \in open : i <= j].id

\* executeInternal dropping the rejection string of startEvent.
BankheistCommand_VetoDropped(s, user, wager) ==
    LET result == validatePoints(s, user, wager)
        h == heistInProgress(s)
    IN IF ~result.ok THEN heistSay(s, result.msg)
       ELSE IF h # 0
       THEN LET r == addParticipant(s, h, user, wager)
            IN IF r.ok THEN r.s ELSE heistSay(r.s, "alreadyJoined")
       ELSE startBankheist(s, NewBankheistEvent(user, wager)).s

\* executeInternal without the search for a bankheist to join.
BankheistCommand_NoJoin(s, user, wager) ==
    LET result == validatePoints(s, user, wager)
    IN IF ~result.ok THEN heistSay(s, result.msg)
       ELSE LET eventResult == startBankheist(s, NewBankheistEvent(user, wager))
            IN IF ~isEvent(eventResult)
               THEN heistSay(eventResult.s, eventResult.value)
               ELSE eventResult.s

\* BankheistCommand.executeInternal(channel, user, wager)
BankheistCommand(s, user, wager) ==
    LET result == validatePoints(s, user, wager)
        h == heistInProgress(s)
    IN IF ~result.ok THEN heistSay(s, result.msg)
       ELSE IF h # 0
       THEN LET r == addParticipant(s, h, user, wager)
            IN IF r.ok THEN r.s ELSE heistSay(r.s, "alreadyJoined")
       ELSE LET eventResult == startBankheist(s, NewBankheistEvent(user, wager))
            IN IF ~isEvent(eventResult)
               THEN heistSay(eventResult.s, eventResult.value)
               ELSE eventResult.s

\* BankheistEvent.participationPeriodEnded(): the heist is carried out and cools down.
heistParticipationPeriodEnded(s, h) ==
    IF s.heists[h].state = "Open"
    THEN heistSay([s EXCEPT !.heists[h].state = "Ended", !.hcTimers[h] = @ + 1], "heistResult")
    ELSE s

\* The cooldown of bankheist h has elapsed: onCooldownComplete, and the event leaves the registry.
heistCooldownComplete(s, h) ==
    heistSay([s EXCEPT !.runningEvents = SelectSeq(@, LAMBDA e : e # HeistRef(h))], "heistReady")

----------------------------------------------------------------------------
(* SongService: the song queue.  An async method is one step per stretch      *)
(* between two awaits; v is the state of the service and of what it writes to. *)

MaxSongIds == 3
MaxMoves == 1
MaxPending == 1
MaxGoldPending == 2

\* The URLs requested: the scheme typed (or not) and the rest.
YoutubeUrl == [scheme |-> "", rest |-> "youtu.be/a"]
SpotifyUrl == [scheme |-> "https://", rest |-> "open.spotify.com/track/b"]
SecondYoutubeUrl == [scheme |-> "http://", rest |-> "youtu.be/d"]
OtherUrl == [scheme |-> "", rest |-> "example.com/c"]

SocketMessageTypes == {"SongAdded", "SongPlayed", "SongMovedToTop", "SongRemoved"}
SongLogKinds == {"addSongRequest", "addSongPlayed", "addSongRemoved"}

\* A song or song id as passed to songPlayed, moveSongToTop and removeSong.
Num(n) == [typeof |-> "number", value |-> n]
Obj(o) == [typeof |-> "object", value |-> o]

\* YoutubeService.parseYoutubeUrl and SpotifyService.parseSpotifyUrl: the id, "" if none.
parseYoutubeUrl(fullurl) ==
    IF fullurl.rest = "youtu.be/a" THEN "a"
    ELSE IF fullurl.rest = "youtu.be/d" THEN "d"
    ELSE ""
parseSpotifyUrl(fullurl) == IF fullurl.rest = "open.spotify.com/track/b" THEN "b" ELSE ""

\* isSong(obj)
isSong(obj) == {"id", "title", "requestedBy", "source"} \subseteq DOMAIN obj

\* parseUrl(url): [ok, song, v]; the id is taken once the URL is known to be valid.
parseUrl(v, url) ==
    LET fullurl == IF url.scheme \in {"http://", "https://"} THEN url
                   ELSE [scheme |-> "https://", rest |-> url.rest]
        id == parseYoutubeUrl(fullurl)
        sid == parseSpotifyUrl(fullurl)
        made(source, sourceId) ==
            [ok |-> TRUE,
             song |-> [source |-> source, sourceId |-> sourceId,
                       id |-> v.nextSongId, sourceUrl |-> fullurl],
             v |-> [v EXCEPT !.nextSongId = @ + 1]]
    IN IF id # "" THEN made("Youtube", id)
       ELSE IF sid # "" THEN made("Spotify", sid)
       ELSE [ok |-> FALSE, song |-> [id |-> 0], v |-> v]

\* WebsocketService.send and the EventLogService calls.
wsSend(v, type) == [v EXCEPT !.sent[type] = @ + 1]
logSong(v, kind) == [v EXCEPT !.logged[kind] = @ + 1]

\* songQueue.indexOf(songQueue.filter(item => item.id === id)[0]), 1-based; 0 if none.
indexOfId(queue, id) ==
    LET hits == {i \in 1..Len(queue) : queue[i].id = id}
    IN IF hits = {} THEN 0 ELSE CHOOSE i \in hits : \A j \in hits : i <= j

\* songQueue.splice(index): without the count, everything from index on goes.
splice_ToEnd(queue, i) == SubSeq(queue, 1, i - 1)

\* songQueue.splice(index, 1)
splice(queue, i) == SubSeq(queue, 1, i - 1) \o SubSeq(queue, i + 1, Len(queue))

\* The id of a song object (undefined, which matches no song, when it has none).
idOf(obj) == IF "id" \in DOMAIN obj THEN obj.id ELSE 0

\* songPlayed(song)
songPlayed(v, song) ==
    IF song.typeof = "number"
    THEN LET i == indexOfId(v.songQueue, song.value)
         IN IF i # 0
            THEN wsSend(logSong([v EXCEPT !.songQueue = splice(@, i)], "addSongPlayed"), "SongPlayed")
            ELSE v
    ELSE IF song.typeof = "object" /\ "type" \in DOMAIN song.value /\ song.value.type = "isong"
    THEN LET i == indexOfId(v.songQueue, idOf(song.value))
         IN IF i # 0
            THEN wsSend(logSong([v EXCEPT !.songQueue = splice(@, i)], "addSongPlayed"), "SongPlayed")
            ELSE v
    ELSE v

\* moveSongToTop exchanging the song with the head of the queue.
moveSongToTop_Swap(v, song) ==
    IF song.typeof = "number"
    THEN LET i == indexOfId(v.songQueue, song.value)
         IN IF i # 0
            THEN wsSend([v EXCEPT !.songQueue = [@ EXCEPT ![1] = v.songQueue[i],
                                                          ![i] = v.songQueue[1]]], "SongMovedToTop")
            ELSE v
    ELSE v

\* moveSongToTop(song)
moveSongToTop(v, song) ==
    IF song.typeof = "number"
    THEN LET i == indexOfId(v.songQueue, song.value)
         IN IF i # 0
            THEN wsSend([v EXCEPT !.songQueue = <<v.songQueue[i]>> \o splice(@, i)], "SongMovedToTop")
            ELSE v
    ELSE IF isSong(song.value)
    THEN LET i == indexOfId(v.songQueue, idOf(song.value))
         IN IF i # 0
            THEN wsSend([v EXCEPT !.songQueue = <<song.value>> \o splice(@, i)], "SongMovedToTop")
            ELSE v
    ELSE v

\* removeSong(song)
removeSong(v, song) ==
    IF song.typeof = "number"
    THEN LET i == indexOfId(v.songQueue, song.value)
         IN IF i # 0
            THEN wsSend(logSong([v EXCEPT !.songQueue = splice(@, i)], "addSongRemoved"), "SongRemoved")
            ELSE v
    ELSE IF isSong(song.value)
    THEN LET i == indexOfId(v.songQueue, idOf(song.value))
         IN IF i # 0
            THEN wsSend(logSong([v EXCEPT !.songQueue = splice(@, i)], "addSongRemoved"), "SongRemoved")
            ELSE v
    ELSE v

\* addSong(url, requestSource, username, comments) up to its first await:
\* [v, thrown, song]; thrown is "" when the call goes on to fetch the details.
addSongStart(v, url) ==
    LET parsed == parseUrl(v, url)
        existing == {i \in 1..Len(v.songQueue) :
                        /\ v.songQueue[i].sourceId = parsed.song.sourceId
                        /\ v.songQueue[i].source = parsed.song.source}
    IN IF ~parsed.ok
       THEN [v |-> v, thrown |-> "InvalidSongUrlError", song |-> parsed.song]
       ELSE IF existing # {}
       THEN [v |-> parsed.v, thrown |-> "SongAlreadyInQueueError", song |-> parsed.song]
       ELSE [v |-> parsed.v, thrown |-> "", song |-> parsed.song]

\* getSongDetails(song) once the source has answered: the song with its details.
getSongDetails(song) ==
    [source |-> song.source, sourceId |-> song.sourceId, id |-> song.id,
     sourceUrl |-> song.sourceUrl,
     details |-> [title |-> song.sourceId, sourceId |-> song.sourceId, source |-> song.source],
     previewData |-> [linkUrl |-> song.sourceUrl]]

\* addSong from the answer of getSongDetails to the await of the event log:
\* the song is queued, completed and announced.
addSongQueue(v, song, requestSource, username) ==
    LET d == getSongDetails(song)
        queued == [source |-> d.source, sourceId |-> d.sourceId, id |-> d.id,
                   sourceUrl |-> d.sourceUrl, details |-> d.details,
                   previewData |-> d.previewData, requestedBy |-> username,
                   requestSource |-> requestSource, requestTime |-> v.today, comments |-> ""]
    IN logSong(wsSend([v EXCEPT !.songQueue = Append(@, queued)], "SongAdded"),
               "addSongRequest")

\* addSong rejecting at one of its awaits (getSongDetails, addSongRequest,
\* getUser, getCount): the catch block rethrows and undoes nothing, and an
\* addGoldSong awaiting it ends with the same error before it touches the user.
addSongThrows(v, t) == [v EXCEPT !.tasks = splice(@, t)]

\* A date that is not set (undefined); days are counted from 1, and day n is
\* weekday n % 7 of Date.getDay (0 is Sunday).
NoDate == 0
MaxDay == 3

\* getDayStartingAtMonday(date)
getDayStartingAtMonday(date) ==
    LET day == date % 7 IN IF day = 0 THEN 6 ELSE day - 1

\* getIndividualStartOfWeek(dateToCheck, vipExpiry)
getIndividualStartOfWeek(dateToCheck, vipExpiry) ==
    LET vipWeekday == getDayStartingAtMonday(vipExpiry + 1)
        todayWeekday == getDayStartingAtMonday(dateToCheck)
        dayDifference == todayWeekday - vipWeekday
        weekStartDay == dateToCheck - dayDifference
    IN IF weekStartDay > dateToCheck THEN weekStartDay - 7 ELSE weekStartDay

\* addGoldSong(url, user, comments) up to its call of addSong: the message it
\* returns, "" when the request goes on to addSong.
goldVeto(v, username) ==
    LET user == v.users[username]
        todayDate == v.today
    IN IF user.vipExpiry = NoDate /\ user.vipPermanentRequests = 0 THEN "needVip"
       ELSE IF user.vipPermanentRequests = 0 /\ user.vipExpiry # NoDate
               /\ user.vipExpiry < todayDate THEN "expired"
       ELSE IF user.vipLastRequest # NoDate /\ user.vipExpiry # NoDate
               /\ user.vipLastRequest >= getIndividualStartOfWeek(todayDate, user.vipExpiry)
       THEN "alreadyThisWeek"
       ELSE ""

\* addGoldSong taking a permanent request off whether or not one is left.
goldDone_AlwaysDecrement(v, username, todayDate) ==
    [v EXCEPT !.users[username].vipLastRequest = todayDate,
              !.users[username].vipPermanentRequests = @ - 1,
              !.updates = @ + 1,
              !.goldLog = Append(@, [user |-> username, date |-> todayDate])]

\* addGoldSong after addSong has returned the song.
goldDone(v, username, todayDate) ==
    LET marked == [v EXCEPT !.users[username].vipLastRequest = todayDate,
                            !.users[username].vipPermanentRequests =
                                IF @ # 0 THEN @ - 1 ELSE @]
    IN [marked EXCEPT !.updates = @ + 1,
                      !.goldLog = Append(@, [user |-> username, date |-> todayDate])]

\* The users that request songs, with their VIP gold status.
SongUsers == {"alice", "bob", "carol"}

SongInit ==
    [songQueue |-> <<>>,
     nextSongId |-> 1,
     sent |-> [m \in SocketMessageTypes |-> 0],
     logged |-> [k \in SongLogKinds |-> 0],
     today |-> 2,
     users |-> [u \in SongUsers |->
                  IF u = "alice"
                  THEN [vipExpiry |-> 9, vipLastRequest |-> NoDate, vipPermanentRequests |-> 0]
                  ELSE IF u = "bob"
                  THEN [vipExpiry |-> NoDate, vipLastRequest |-> NoDate, vipPermanentRequests |-> 2]
                  ELSE [vipExpiry |-> NoDate, vipLastRequest |-> NoDate, vipPermanentRequests |-> 0]],
     updates |-> 0,
     goldLog |-> <<>>,
     tasks |-> <<>>,
     lastMove |-> 0]

----------------------------------------------------------------------------
(* UserPermissionService: user levels from the Twitch status.  p is the state *)
(* of the service: the stored users and the calls that await an answer.       *)

MaxLevelCalls == 3

\* UserLevels in ascending order.
UserLevelOrder == <<"Viewer", "Subscriber", "Moderator", "Admin", "Broadcaster">>

\* userLevel < UserLevels.Admin
BelowAdmin(userLevel) ==
    \E i, j \in 1..Len(UserLevelOrder) :
        UserLevelOrder[i] = userLevel /\ UserLevelOrder[j] = "Admin" /\ i < j

\* Config.twitch.broadcasterName
BroadcasterName == "chewiemelodies"

\* The users known to UserService; "nobody" is not among them.
LevelUsers == {"alice", "bob", "carol", BroadcasterName}
NoLevel == "undefined"

LevelInit ==
    [levels |-> [u \in LevelUsers |->
                    IF u = "alice" THEN "Subscriber"
                    ELSE IF u = "bob" THEN "Moderator"
                    ELSE IF u = "carol" THEN "Admin"
                    ELSE "Viewer"],
     updates |-> [u \in LevelUsers |-> 0],
     tasks |-> <<>>,
     calls |-> 0,
     lastCall |-> [op |-> "init", res |-> ""]]

\* userService.getUser(username): the stored user, undefined if there is none.
getUser(p, username) ==
    IF username \in LevelUsers
    THEN [username |-> username, userLevel |-> p.levels[username]]
    ELSE [username |-> username, userLevel |-> NoLevel]

\* isUserBroadcaster(username)
isUserBroadcaster(username) == username = BroadcasterName

\* updateUserLevelForUser(user, userLevel)
updateUserLevelForUser(p, user, userLevel) ==
    IF user.userLevel # userLevel
    THEN [p EXCEPT !.levels[user.username] = userLevel,
                   !.updates[user.username] = @ + 1]
    ELSE p

\* updateUserLevels from the point where userData is known to its next await
\* or its end; t is the pending call, 0 when the call has not awaited yet.
withUserData(p, t, userData) ==
    LET done == IF t = 0 THEN p ELSE [p EXCEPT !.tasks = splice(@, t)]
    IN IF userData.userLevel = NoLevel THEN done
       ELSE IF isUserBroadcaster(userData.username)
       THEN updateUserLevelForUser(done, userData, "Broadcaster")
       ELSE IF BelowAdmin(userData.userLevel)
       THEN IF t = 0
            THEN [p EXCEPT !.tasks = Append(@, [pc |-> "isUserModded", userData |-> userData])]
            ELSE [p EXCEPT !.tasks[t] = [pc |-> "isUserModded", userData |-> userData]]
       ELSE done

\* isUserModded / isUserSubbed: the list fetched is undefined, empty or not.
LookupAnswers == {"undefined", "empty", "found"}

\* updateUserLevels continues with the answer of isUserModded.
moddedAnswer(p, t, mods) ==
    LET userData == p.tasks[t].userData
        done == [p EXCEPT !.tasks = splice(@, t)]
    IN IF mods = "undefined" THEN done
       ELSE IF mods = "found" THEN updateUserLevelForUser(done, userData, "Moderator")
       ELSE [p EXCEPT !.tasks[t].pc = "isUserSubbed"]

\* updateUserLevels continues with the answer of isUserSubbed: undefined is falsy.
subbedAnswer(p, t, subs) ==
    LET userData == p.tasks[t].userData
        done == [p EXCEPT !.tasks = splice(@, t)]
    IN IF subs = "found" THEN updateUserLevelForUser(done, userData, "Subscriber")
       ELSE updateUserLevelForUser(done, userData, "Viewer")

----------------------------------------------------------------------------
(* The state machine *)

Become(s) == sys' = s /\ UNCHANGED <<svc, ups>>

Init ==
    /\ sys = [duels |-> <<>>, runningEvents |-> <<>>, points |-> StartPoints,
              pTimer |-> <<>>, wTimers |-> <<>>, cTimers |-> <<>>, chat |-> <<>>,
              policyMsgs |-> [k \in PolicyMsgKinds |-> [u \in Users |-> 0]],
              whispers |-> [u \in Users |-> 0], hist |-> <<>>,
              heists |-> <<>>, hpTimer |-> <<>>, hcTimers |-> <<>>,
              heistMsgs |-> [k \in HeistMsgKinds |-> 0]]
    /\ ncmd = 0
    /\ last = [op |-> "init", duel |-> 0]
    /\ svc = SongInit
    /\ ups = LevelInit

\* !duel [target] wager by a user who (like the named target) holds the wager.
DuelCmd(user, target, wager) ==
    /\ ncmd < MaxCommands
    /\ firstVeto(State) = "" => Len(duels) < MaxDuels
    /\ target # user
    /\ points[user] >= wager
    /\ target # NoUser => points[target] >= wager
    /\ Become(DuelCommand(State, user, target, wager))
    /\ ncmd' = ncmd + 1
    /\ last' = [op |-> "duel",
                duel |-> IF firstVeto(State) = "" THEN Len(duels) + 1 ELSE 0]

\* !accept
AcceptCmd(user) ==
    /\ ncmd < MaxCommands
    /\ Become(AcceptCommand(State, user))
    /\ ncmd' = ncmd + 1
    /\ last' = [op |-> "accept", duel |-> acceptTarget(State, user)]

\* !rock, !paper, !scissors in the channel or as a whisper (empty channel)
WeaponCmd(channel, user, weapon) ==
    /\ ncmd < MaxCommands
    /\ Become(WeaponCommand(State, channel, user, weapon))
    /\ ncmd' = ncmd + 1
    /\ last' = [op |-> IF channel = "" THEN "weapon" ELSE "publicWeapon",
                duel |-> IF channel = "" THEN weaponTarget(State, user, "Rock") ELSE 0]

\* The participation period of duel d elapses.
ParticipationTimer(d) ==
    /\ pTimer[d]
    /\ Become(participationPeriodEnded([State EXCEPT !.pTimer[d] = FALSE], d))
    /\ ncmd' = ncmd
    /\ last' = [op |-> "participationPeriodEnded", duel |-> d]

\* A weapon-selection delay of duel d elapses.
WeaponChoiceTimer(d) ==
    /\ wTimers[d] > 0
    /\ Become(waitForWeaponChoice([State EXCEPT !.wTimers[d] = @ - 1], d))
    /\ ncmd' = ncmd
    /\ last' = [op |-> "waitForWeaponChoice", duel |-> d]

\* A cooldown of duel d elapses: the event is deregistered and told so.
CooldownTimer(d) ==
    /\ cTimers[d] > 0
    /\ Become(onCooldownComplete(stopEvent([State EXCEPT !.cTimers[d] = @ - 1], d), d))
    /\ ncmd' = ncmd
    /\ last' = [op |-> "cooldown", duel |-> d]

Next ==
    \/ \E i \in DuelInputs : DuelCmd(i[1], i[2], i[3])
    \/ \E u \in Users : AcceptCmd(u)
    \/ \E i \in WeaponInputs : WeaponCmd(i[1], i[2], i[3])
    \/ \E d \in 1..Len(duels) : ParticipationTimer(d)
    \/ \E d \in 1..Len(duels) : WeaponChoiceTimer(d)
    \/ \E d \in 1..Len(duels) : CooldownTimer(d)

Spec == Init /\ [][Next]_vars

\* !bankheist wager
BankheistCmd(user, wager) ==
    /\ ncmd < MaxCommands
    /\ (validatePoints(State, user, wager).ok /\ heistInProgress(State) = 0 /\ heistVeto(State) = "")
          => Len(heists) < MaxHeists
    /\ Become(BankheistCommand(State, user, wager))
    /\ ncmd' = ncmd + 1
    /\ last' = [op |-> "bankheist", duel |-> 0]

\* The participation period of bankheist h elapses.
HeistParticipationTimer(h) ==
    /\ hpTimer[h]
    /\ Become(heistParticipationPeriodEnded([State EXCEPT !.hpTimer[h] = FALSE], h))
    /\ ncmd' = ncmd
    /\ last' = [op |-> "heistParticipationPeriodEnded", duel |-> 0]

\* A cooldown of bankheist h elapses.
HeistCooldownTimer(h) ==
    /\ hcTimers[h] > 0
    /\ Become(heistCooldownComplete([State EXCEPT !.hcTimers[h] = @ - 1], h))
    /\ ncmd' = ncmd
    /\ last' = [op |-> "heistCooldown", duel |-> 0]

\* The bankheist command beside the !duel command: duels are started and called
\* off unanswered, nobody accepts one.
HeistNext ==
    \/ \E i \in HeistInputs : BankheistCmd(i[1], i[2])
    \/ \E h \in 1..Len(heists) : HeistParticipationTimer(h)
    \/ \E h \in 1..Len(heists) : HeistCooldownTimer(h)
    \/ \E i \in DuelInputs : DuelCmd(i[1], i[2], i[3])
    \/ \E d \in 1..Len(duels) : ParticipationTimer(d)

HeistSpec == Init /\ [][HeistNext]_vars

\* Duels and bankheists side by side, with every command and every callback:
\* alice starts bankheists, carol and alice start duels.
EventsHeistInputs == {<<"alice", 5>>}
EventsDuelInputs == {<<"alice", "bob", 5>>, <<"carol", NoUser, 10>>}
EventsWeaponInputs == {<<"", "alice", "rock">>, <<"", "bob", "paper">>}

EventsNext ==
    \/ \E i \in EventsHeistInputs : BankheistCmd(i[1], i[2])
    \/ \E h \in 1..Len(heists) : HeistParticipationTimer(h)
    \/ \E h \in 1..Len(heists) : HeistCooldownTimer(h)
    \/ \E i \in EventsDuelInputs : DuelCmd(i[1], i[2], i[3])
    \/ \E u \in Users : AcceptCmd(u)
    \/ \E i \in EventsWeaponInputs : WeaponCmd(i[1], i[2], i[3])
    \/ \E d \in 1..Len(duels) : ParticipationTimer(d)
    \/ \E d \in 1..Len(duels) : WeaponChoiceTimer(d)
    \/ \E d \in 1..Len(duels) : CooldownTimer(d)

EventsSpec == Init /\ [][EventsNext]_vars

----------------------------------------------------------------------------
(* The song queue as a state machine *)

\* lastMove is the index at which the step, if it was a moveSongToTop by id,
\* found the song; 0 after any other step.
SongBecome(v) ==
    /\ svc' = [v EXCEPT !.lastMove = 0]
    /\ UNCHANGED <<sys, ncmd, last, ups>>

CanCall(pending) == svc.nextSongId <= MaxSongIds /\ Len(svc.tasks) < pending

\* The requests made: addSong by donation, and addGoldSong.
SongInputs == {<<YoutubeUrl, "carol">>, <<SpotifyUrl, "bob">>,
               <<SecondYoutubeUrl, "carol">>, <<OtherUrl, "carol">>}
GoldInputs == {<<YoutubeUrl, "alice">>, <<SpotifyUrl, "alice">>,
               <<SpotifyUrl, "bob">>, <<YoutubeUrl, "carol">>}

NewTask(song, requestSource, username, todayDate) ==
    [pc |-> "details", song |-> song, requestSource |-> requestSource,
     username |-> username, todayDate |-> todayDate]

\* addSong is called (a request by donation) and runs to its first await.
AddSongCall(url, username) ==
    /\ CanCall(MaxPending)
    /\ LET r == addSongStart(svc, url)
       IN IF r.thrown # ""
          THEN SongBecome(r.v)
          ELSE SongBecome([r.v EXCEPT !.tasks =
                               Append(@, NewTask(r.song, "Donation", username, NoDate))])

\* addGoldSong(url, user, comments) to its first await, in addSong: it returns
\* a rejection string, or addSong throws at once, or the call is suspended.
addGoldSongStart(v, url, username) ==
    LET veto == goldVeto(v, username)
        r == addSongStart(v, url)
    IN IF veto # ""
       THEN v
       ELSE IF r.thrown # ""
       THEN r.v
       ELSE [r.v EXCEPT !.tasks = Append(@, NewTask(r.song, "GoldSong", username, v.today))]

\* addGoldSong is called and runs to its first await, in addSong.
AddGoldSongCall(url, username) ==
    /\ CanCall(MaxGoldPending)
    /\ SongBecome(addGoldSongStart(svc, url, username))

\* The source answers getSongDetails of a pending addSong: with the details
\* (the song is queued and announced) or with none (addSong throws).
SongDetailsAnswer(t, found) ==
    /\ t \in 1..Len(svc.tasks)
    /\ svc.tasks[t].pc = "details"
    /\ LET task == svc.tasks[t]
       IN IF found
          THEN SongBecome([addSongQueue(svc, task.song, task.requestSource, task.username)
                              EXCEPT !.tasks[t].pc = "log"])
          ELSE SongBecome(addSongThrows(svc, t))

\* The event log and the user lookup answer: addSong returns the song, and an
\* addGoldSong that awaited it finishes.
AddSongReturn(t) ==
    /\ t \in 1..Len(svc.tasks)
    /\ svc.tasks[t].pc = "log"
    /\ LET task == svc.tasks[t]
           v == [svc EXCEPT !.tasks = splice(@, t)]
       IN IF task.requestSource = "GoldSong"
          THEN SongBecome(goldDone(v, task.username, task.todayDate))
          ELSE SongBecome(v)

\* The event log or the user lookup fails: addSong throws after the song was
\* queued and announced.
AddSongThrows(t) ==
    /\ t \in 1..Len(svc.tasks)
    /\ svc.tasks[t].pc = "log"
    /\ SongBecome(addSongThrows(svc, t))

\* The songs of the queue that addSong has returned to its caller.
ReturnedSongs ==
    {svc.songQueue[i] : i \in {j \in 1..Len(svc.songQueue) :
        \A t \in 1..Len(svc.tasks) : svc.tasks[t].song.id # svc.songQueue[j].id}}

\* The song ids that songPlayed, moveSongToTop and removeSong are called with.
SongIds == 1..MaxSongIds

SongPlayedCall(song) ==
    /\ song.typeof \in {"number", "object"}
    /\ SongBecome(songPlayed(svc, song))

MoveSongToTopCall(song) ==
    /\ svc.sent["SongMovedToTop"] < MaxMoves
    /\ svc' = [moveSongToTop(svc, song) EXCEPT !.lastMove =
                   IF song.typeof = "number" THEN indexOfId(svc.songQueue, song.value) ELSE 0]
    /\ UNCHANGED <<sys, ncmd, last, ups>>

RemoveSongCall(song) ==
    /\ song.typeof \in {"number", "object"}
    /\ SongBecome(removeSong(svc, song))

\* Midnight passes.
NextDay ==
    /\ svc.today < MaxDay
    /\ SongBecome([svc EXCEPT !.today = @ + 1])

SongNext ==
    \/ \E i \in SongInputs : AddSongCall(i[1], i[2])
    \/ \E t \in 1..Len(svc.tasks), found \in BOOLEAN : SongDetailsAnswer(t, found)
    \/ \E t \in 1..Len(svc.tasks) : AddSongReturn(t)
    \/ \E t \in 1..Len(svc.tasks) : AddSongThrows(t)
    \/ \E n \in SongIds : SongPlayedCall(Num(n))
    \/ \E o \in ReturnedSongs : SongPlayedCall(Obj(o))
    \/ \E n \in SongIds : MoveSongToTopCall(Num(n))
    \/ \E o \in ReturnedSongs : MoveSongToTopCall(Obj(o))
    \/ \E n \in SongIds : RemoveSongCall(Num(n))
    \/ \E o \in ReturnedSongs : RemoveSongCall(Obj(o))

SongSpec == Init /\ [][SongNext]_vars

\* Gold song requests over the days.
GoldNext ==
    \/ \E i \in GoldInputs : AddGoldSongCall(i[1], i[2])
    \/ \E t \in 1..Len(svc.tasks), found \in BOOLEAN : SongDetailsAnswer(t, found)
    \/ \E t \in 1..Len(svc.tasks) : AddSongReturn(t)
    \/ \E t \in 1..Len(svc.tasks) : AddSongThrows(t)
    \/ NextDay

GoldSpec == Init /\ [][GoldNext]_vars

\* Gold song requests of a user with an expiry date and of a user with
\* permanent requests.
GoldSpendInputs == {<<YoutubeUrl, "alice">>, <<SpotifyUrl, "bob">>}

GoldSpendNext ==
    \/ \E i \in GoldSpendInputs : AddGoldSongCall(i[1], i[2])
    \/ \E t \in 1..Len(svc.tasks), found \in BOOLEAN : SongDetailsAnswer(t, found)
    \/ \E t \in 1..Len(svc.tasks) : AddSongReturn(t)
    \/ \E t \in 1..Len(svc.tasks) : AddSongThrows(t)
    \/ NextDay

GoldSpendSpec == Init /\ [][GoldSpendNext]_vars

----------------------------------------------------------------------------
(* The user levels as a state machine *)

LevelBecome(p, op, res) ==
    /\ ups' = [p EXCEPT !.lastCall = [op |-> op, res |-> res]]
    /\ UNCHANGED <<sys, ncmd, last, svc>>

\* updateUserLevels(username) is called and awaits getUser.
UpdateUserLevelsByName(username) ==
    /\ ups.calls < MaxLevelCalls
    /\ LevelBecome([ups EXCEPT !.calls = @ + 1,
                                !.tasks = Append(@, [pc |-> "getUser",
                                                     userData |-> [username |-> username,
                                                                   userLevel |-> NoLevel]])],
                   "updateUserLevels", "string")

\* updateUserLevels(user) is called with the user as stored.
UpdateUserLevelsByUser(username) ==
    /\ ups.calls < MaxLevelCalls
    /\ LevelBecome(withUserData([ups EXCEPT !.calls = @ + 1], 0, getUser(ups, username)),
                   "updateUserLevels", "object")

GetUserAnswer(t) ==
    /\ ups.tasks[t].pc = "getUser"
    /\ LevelBecome(withUserData(ups, t, getUser(ups, ups.tasks[t].userData.username)),
                   "getUser", "")

ModdedAnswer(t, mods) ==
    /\ ups.tasks[t].pc = "isUserModded"
    /\ LevelBecome(moddedAnswer(ups, t, mods), "isUserModded", mods)

SubbedAnswer(t, subs) ==
    /\ ups.tasks[t].pc = "isUserSubbed"
    /\ LevelBecome(subbedAnswer(ups, t, subs), "isUserSubbed", subs)

LevelNext ==
    \/ \E u \in LevelUsers \cup {"nobody"} : UpdateUserLevelsByName(u)
    \/ \E u \in LevelUsers : UpdateUserLevelsByUser(u)
    \/ \E t \in 1..Len(ups.tasks) : GetUserAnswer(t)
    \/ \E t \in 1..Len(ups.tasks), mods \in LookupAnswers : ModdedAnswer(t, mods)
    \/ \E t \in 1..Len(ups.tasks), subs \in LookupAnswers : SubbedAnswer(t, subs)

LevelSpec == Init /\ [][LevelNext]_vars

----------------------------------------------------------------------------
(* Vocabulary of the properties *)

DuelIds == 1..Len(duels)

InRegistry(d) == \E i \in 1..Len(runningEvents) : runningEvents[i] = DuelRef(d)

\* What duel d has added to the balances of all users together.
NetSum(d) ==
    LET n == hist[d].net
        RECURSIVE sum(_)
        sum(S) == IF S = {} THEN 0
                  ELSE LET u == CHOOSE x \in S : TRUE IN n[u] + sum(S \ {u})
    IN sum(Users)

\* The chat messages of duel d, all kinds together, in state s.
ChatTotal(s, d) ==
    LET c == s.chat[d]
    IN c["challenge"] + c["openChallenge"] + c["notAnswered"] + c["targetNotAnswered"]
         + c["rudeInitiator"] + c["ranAway"] + c["tie"] + c["bothLose"] + c["weaponWin"]
         + c["wins"] + c["ready"] + c["timeToDuel"] + c["notEnough"]

Initiator(d) == duels[d].participants[1].user
Opponent(d) == duels[d].participants[2].user

\* Rock beats scissors, scissors beats paper, paper beats rock.
Beats(a, b) == <<a, b>> \in {<<"Rock", "Scissors">>, <<"Scissors", "Paper">>, <<"Paper", "Rock">>}

\* The duel was settled by startDuel at least once.
Settled(d) == hist[d].payout >= 1

\* C1: escrow conservation.  For every duel that was accepted and settled by
\* startDuel, the duel has changed the sum of the balances by exactly
\* -2 * round(wager * 0.10) when it was a tie and by zero when there is a winner.
C1_EscrowConservation ==
    \A d \in DuelIds :
        Settled(d) =>
            NetSum(d) = IF hist[d].outcome = "tie"
                        THEN -2 * ((duels[d].wager + 5) \div 10)
                        ELSE 0

\* C2: for a single duel, under any interleaving of accept commands, weapon
\* commands and timer callbacks, the wager is deducted at most once and exactly
\* one of payout and refund is applied, exactly once (once the weapon-choice
\* delays of an accepted duel have all elapsed).
C2_DeductOncePayOnce ==
    \A d \in DuelIds :
        /\ hist[d].deduct <= 1
        /\ hist[d].payout + hist[d].refund <= 1
        /\ (hist[d].deduct >= 1 /\ wTimers[d] = 0) => hist[d].payout + hist[d].refund = 1

\* C3: no double settlement.  participationPeriodEnded() on a duel that has been
\* settled or cancelled changes nothing (no balance, no message, no registry
\* entry, no timer), and calling it twice has the effect of calling it once.
C3_NoDoubleSettlement ==
    \A d \in DuelIds :
        /\ (Settled(d) \/ hist[d].refund >= 1 \/ duels[d].state = "Ended")
              => participationPeriodEnded(State, d) = State
        /\ participationPeriodEnded(participationPeriodEnded(State, d), d)
              = participationPeriodEnded(State, d)

\* The participation-period callback has just run on a duel that was settled before.
C3_Witness ==
    /\ last.op = "participationPeriodEnded"
    /\ Settled(last.duel)
    /\ chat[last.duel]["wins"] = 1

\* C4: at most one active duel.  At no time are two duels Open or
\* BoardingCompleted; a duel is in the registry exactly until it is cancelled or
\* its cooldown has elapsed; and while a duel is in the registry every !duel is
\* answered with one policy message and starts nothing, while with no duel in the
\* registry it starts the new duel.
C4_OneActiveDuel ==
    /\ Cardinality({d \in DuelIds : duels[d].state \in {"Open", "BoardingCompleted"}}) <= 1
    /\ \A d \in DuelIds :
          InRegistry(d) <=>
              /\ chat[d]["notAnswered"] + chat[d]["targetNotAnswered"] = 0
              /\ chat[d]["rudeInitiator"] + chat[d]["ranAway"] = 0
              /\ chat[d]["ready"] = 0
    /\ \A i \in DuelInputs :
          LET s2 == DuelCommand(State, i[1], i[2], i[3])
          IN IF \E d \in DuelIds : InRegistry(d)
             THEN /\ \E k \in PolicyMsgKinds :
                        s2 = [State EXCEPT !.policyMsgs[k][i[1]] = @ + 1]
             ELSE /\ Len(s2.duels) = Len(duels) + 1
                  /\ s2.runningEvents = Append(runningEvents, DuelRef(Len(duels) + 1))
                  /\ s2.policyMsgs = policyMsgs

\* A !duel was rejected while the previous, settled duel was cooling down.
C4_Witness ==
    /\ last.op = "duel"
    /\ last.duel = 0
    /\ policyMsgs["justFinished"]["alice"] = 1
    /\ \E d \in DuelIds : Settled(d) /\ InRegistry(d) /\ cTimers[d] > 0

\* C5: win/lose payout.  When the weapons of a settled duel differ, the winner is
\* the participant whose weapon beats the other's, and relative to the balances
\* before acceptance the winner is +wager and the loser is -wager.
C5_WinLosePayout ==
    \A d \in DuelIds :
        (Settled(d) /\ hist[d].outcome # "tie") =>
            LET p == duels[d].participants
                win == IF Beats(p[1].weapon, p[2].weapon) THEN p[1] ELSE p[2]
                lose == IF Beats(p[1].weapon, p[2].weapon) THEN p[2] ELSE p[1]
            IN /\ Beats(win.weapon, lose.weapon)
               /\ hist[d].outcome = win.user
               /\ hist[d].net[win.user] = duels[d].wager
               /\ hist[d].net[lose.user] = -duels[d].wager

\* C6: tie payout.  When both chose the same weapon, each participant has a net
\* loss of round(wager * 0.10), rounded half up, relative to the balance before
\* acceptance, and nobody else's balance is changed by the duel.
C6_TiePayout ==
    \A d \in DuelIds :
        (Settled(d) /\ hist[d].outcome = "tie") =>
            LET w == duels[d].wager
                lost == CHOOSE n \in 0..w : 10 * n - 5 <= w /\ w < 10 * n + 5
            IN \A u \in Users :
                  hist[d].net[u] = IF u \in {Initiator(d), Opponent(d)} THEN -lost ELSE 0

\* C7: no-show.  When the weapon-selection window of an accepted duel elapses
\* with a weapon still None, the duel is cancelled without cooldown, nothing is
\* paid out and both balances are what they were before acceptance.
C7_NoShowRefund ==
    \A d \in DuelIds :
        hist[d].refund >= 1 =>
            /\ duels[d].state = "Ended"
            /\ ~InRegistry(d)
            /\ hist[d].payout = 0
            /\ hist[d].cooldowns = 0
            /\ \A u \in Users : hist[d].net[u] = 0

\* C8: insufficient funds.  accept(user) by a user holding less than the wager
\* returns (false, "... does not have enough chews!") and changes nothing; the
\* accept command then sends that one message and nothing else happens.
C8_InsufficientFunds ==
    \A d \in DuelIds, u \in Users :
        points[u] < duels[d].wager =>
            /\ accept(State, d, u) = [s |-> State, ok |-> FALSE, msg |-> "notEnough"]
            /\ acceptDuel(State, d, u) = [State EXCEPT !.chat[d]["notEnough"] = @ + 1]

\* An accept command was rejected for lack of chews and the open duel is still Open.
C8_Witness ==
    /\ last.op = "accept"
    /\ last.duel # 0
    /\ \E u \in Users : points[u] < duels[last.duel].wager
    /\ chat[last.duel]["notEnough"] >= 1
    /\ duels[last.duel].state = "Open"
    /\ Len(duels[last.duel].participants) = 1

\* Nobody has accepted duel d: it is still Open, or its named target has not accepted.
NotAccepted(d) ==
    \/ duels[d].state = "Open"
    \/ /\ duels[d].state = "BoardingCompleted"
       /\ Len(duels[d].participants) > 1
       /\ ~duels[d].participants[2].accepted

\* C9: no acceptance.  When the participation period elapses and nobody accepted,
\* the duel is cancelled with exactly one cancellation message, no balance
\* changes, the duel leaves the registry without cooldown and a new duel can be
\* started at once.  No duel ever gets more than one such message.
C9_NoAcceptance ==
    \A d \in DuelIds :
        /\ chat[d]["notAnswered"] + chat[d]["targetNotAnswered"] <= 1
        /\ (pTimer[d] /\ NotAccepted(d)) =>
              LET s2 == participationPeriodEnded(State, d)
              IN /\ s2.points = points
                 /\ s2.hist = hist
                 /\ ChatTotal(s2, d) = ChatTotal(State, d) + 1
                 /\ s2.chat[d]["notAnswered"] + s2.chat[d]["targetNotAnswered"] = 1
                 /\ \A e \in DuelIds \ {d} : s2.chat[e] = chat[e]
                 /\ s2.duels[d].state = "Ended"
                 /\ \A i \in 1..Len(s2.runningEvents) : s2.runningEvents[i] # DuelRef(d)
                 /\ s2.cTimers = cTimers
                 /\ s2.wTimers = wTimers
                 /\ firstVeto(s2) = ""

\* A second duel was started right after the first was called off unanswered.
C9_Witness ==
    /\ last.op = "duel"
    /\ last.duel = 2
    /\ chat[1]["notAnswered"] + chat[1]["targetNotAnswered"] = 1
    /\ hist[1].cooldowns = 0
    /\ points = StartPoints

\* The outcome of weapons a (initiator) and b (opponent): "tie", "first" or "second".
Outcome(a, b) == IF a = b THEN "tie" ELSE IF Beats(a, b) THEN "first" ELSE "second"

\* C10: weapon overwrite.  Every whispered weapon choice of a participant of a
\* duel in its selection window succeeds and replaces the previous value, and the
\* outcome of a settled duel is the one of the participants' last choices.
C10_WeaponOverwrite ==
    \A d \in DuelIds :
        /\ (InRegistry(d) /\ duels[d].state = "BoardingCompleted") =>
              \A i \in 1..Len(duels[d].participants), w \in Weapons :
                  LET u == duels[d].participants[i].user
                      s2 == chooseWeapon(State, "", u, w)
                  IN /\ s2.duels[d].participants[i].weapon = w
                     /\ s2.whispers[u] = whispers[u] + 1
        /\ Settled(d) =>
              LET o == Outcome(hist[d].lastSet[Initiator(d)], hist[d].lastSet[Opponent(d)])
              IN hist[d].outcome = CASE o = "tie" -> "tie"
                                     [] o = "first" -> Initiator(d)
                                     [] o = "second" -> Opponent(d)

\* A duel was settled after a participant had replaced an earlier weapon choice.
C10_Witness ==
    \E d \in DuelIds :
        /\ Settled(d)
        /\ hist[d].overwrites >= 1
        /\ hist[d].deduct = 1

\* C11: a weapon choice arriving on a public channel is ignored.  The weapon
\* command with a non-empty channel leaves the whole program state as it was (no
\* weapon, no whisper, no chat message, no duel state changes), and a participant
\* holds a weapon only after a whispered choice was confirmed to that user.
C11_PublicWeaponIgnored ==
    /\ \A u \in Users, a \in WeaponArgs : WeaponCommand(State, PublicChannel, u, a) = State
    /\ \A u \in Users, w \in Weapons : chooseWeapon(State, PublicChannel, u, w) = State
    /\ \A d \in DuelIds : \A i \in 1..Len(duels[d].participants) :
          duels[d].participants[i].weapon # WeaponNone
              => whispers[duels[d].participants[i].user] >= 1

\* The opponent of an accepted duel has just sent a weapon to the public channel
\* and still has no weapon.
C11_Witness ==
    /\ last.op = "publicWeapon"
    /\ \E d \in DuelIds :
          /\ InRegistry(d)
          /\ duels[d].state = "BoardingCompleted"
          /\ Len(duels[d].participants) = 2
          /\ duels[d].participants[2].user = "bob"
          /\ duels[d].participants[2].accepted
          /\ duels[d].participants[2].weapon = WeaponNone
          /\ whispers["bob"] = 0

\* C12: no duel escrows more than a user's current balance.  Whenever the accept
\* command of a user would deduct the wager, every participant it deducts from
\* (the initiator as well as the accepting user) holds at least the wager, and no
\* balance is ever negative.
C12_NoOverEscrow ==
    /\ \A u \in Users : points[u] >= 0
    /\ \A u \in Users :
          LET d == acceptTarget(State, u)
          IN (d # 0 /\ canAccept(State, d, u).ok) =>
                \A i \in 1..Len(duels[d].participants) :
                    points[duels[d].participants[i].user] >= duels[d].wager

\* C13: cooldown.  A settled duel enters cooldown exactly once; while its cooldown
\* is pending it is in the registry and every !duel is vetoed; onCooldownComplete
\* runs once per settled duel and only after settlement, and once it has run the
\* duel is out of the registry and "the duelgrounds are ready" was sent exactly
\* once.  A duel that was never settled never enters cooldown nor sends it.
C13_CooldownOnce ==
    \A d \in DuelIds :
        /\ hist[d].cooldowns <= 1
        /\ chat[d]["ready"] <= 1
        /\ Settled(d) => hist[d].cooldowns = 1
        /\ (Settled(d) /\ cTimers[d] > 0) =>
              /\ InRegistry(d)
              /\ chat[d]["ready"] = 0
              /\ firstVeto(State) = "justFinished"
        /\ (Settled(d) /\ cTimers[d] = 0) =>
              /\ ~InRegistry(d)
              /\ chat[d]["ready"] = 1
        /\ ~Settled(d) =>
              /\ hist[d].cooldowns = 0
              /\ cTimers[d] = 0
              /\ chat[d]["ready"] = 0

\* The wagers of the !duel inputs.
Wagers == {i[3] : i \in DuelInputs}

\* Duel d is an open challenge that nobody has accepted yet.
OpenChallenge(d) ==
    InRegistry(d) /\ duels[d].state = "Open" /\ Len(duels[d].participants) = 1

\* C14 as claimed: while an open duel has not been accepted, a second open duel
\* by a different initiator is started and registered beside it.
C14_ConcurrentOpenDuels ==
    \A d \in DuelIds : OpenChallenge(d) =>
        \A u \in Users \ {Initiator(d)}, w \in Wagers :
            LET s2 == DuelCommand(State, u, NoUser, w)
            IN /\ Len(s2.duels) = Len(duels) + 1
               /\ s2.runningEvents = Append(runningEvents, DuelRef(Len(duels) + 1))

\* C14 as amended: at most one open duel challenge is live at a time.  While an
\* open duel that has not been accepted is in the registry, a !duel for a second
\* open duel by a different initiator is answered with "A duel is underway" to
\* that user and changes nothing else: no duel is created or registered.
C14_SecondOpenDuelRejected ==
    /\ Cardinality({d \in DuelIds : OpenChallenge(d)}) <= 1
    /\ \A d \in DuelIds : OpenChallenge(d) =>
          \A u \in Users \ {Initiator(d)}, w \in Wagers :
              DuelCommand(State, u, NoUser, w)
                  = [State EXCEPT !.policyMsgs["underway"][u] = @ + 1]

\* alice's open duel has just been rejected while carol's open duel is waiting.
C14_Witness ==
    /\ last = [op |-> "duel", duel |-> 0]
    /\ ncmd = 2
    /\ policyMsgs["underway"]["alice"] = 1
    /\ \E d \in DuelIds : OpenChallenge(d) /\ Initiator(d) = "carol"

\* All chat messages sent in state s: those of the duels and the rejections of startEvent.
AllChat(s) ==
    LET RECURSIVE duelSum(_)
        duelSum(n) == IF n = 0 THEN 0 ELSE ChatTotal(s, n) + duelSum(n - 1)
        to(k) == s.policyMsgs[k]["alice"] + s.policyMsgs[k]["bob"] + s.policyMsgs[k]["carol"]
    IN duelSum(Len(s.chat)) + to("justFinished") + to("underway")

\* All whispers sent in state s.
AllWhispers(s) == s.whispers["alice"] + s.whispers["bob"] + s.whispers["carol"]

\* What the step has sent: <<chat messages, whispers>>.
Sent == <<AllChat(sys') - AllChat(sys), AllWhispers(sys') - AllWhispers(sys)>>

\* The first participant of duel d (in the order of the code's tests) without a weapon, 0 if none.
FirstUnarmed(d) ==
    IF duels[d].participants[1].weapon = WeaponNone THEN 1
    ELSE IF Len(duels[d].participants) > 1 /\ duels[d].participants[2].weapon = WeaponNone THEN 2
    ELSE 0

\* The step is the accept command, on duel last'.duel, and accept returned true.
AcceptedNow ==
    /\ last'.op = "accept"
    /\ last'.duel # 0
    /\ sys'.hist[last'.duel].deduct = hist[last'.duel].deduct + 1

\* The step is the weapon-choice continuation of a duel whose participants all hold a weapon.
ArmedNow(n) ==
    /\ last'.op = "waitForWeaponChoice"
    /\ FirstUnarmed(last'.duel) = 0
    /\ Len(duels[last'.duel].participants) = n

\* What is the same for the claim and its amendment: a !duel (started or vetoed)
\* sends one chat message, a rejected accept one, a cancellation one, the end of
\* the cooldown one, a whispered weapon choice one whisper exactly when it sets a
\* weapon, and an accept command finding no duel, a weapon on the public channel
\* and a participation callback on an accepted or ended duel send nothing.
MessagesCommon ==
    /\ last'.op = "duel" => Sent = <<1, 0>>
    /\ (last'.op = "accept" /\ last'.duel = 0) => Sent = <<0, 0>>
    /\ (last'.op = "accept" /\ last'.duel # 0 /\ ~AcceptedNow) => Sent = <<1, 0>>
    /\ last'.op = "weapon" => Sent = <<0, IF last'.duel # 0 THEN 1 ELSE 0>>
    /\ last'.op = "publicWeapon" => Sent = <<0, 0>>
    /\ last'.op = "participationPeriodEnded"
          => Sent = <<IF NotAccepted(last'.duel) THEN 1 ELSE 0, 0>>
    /\ (last'.op = "waitForWeaponChoice" /\ FirstUnarmed(last'.duel) # 0) => Sent = <<1, 0>>
    /\ last'.op = "cooldown" => Sent = <<1, 0>>

\* C15 as claimed: every rejection and every transition of a duel (start,
\* accept, rejected accept, cancellation, settlement, cooldown completion) sends
\* exactly one chat message, every accepted weapon selection exactly one
\* whisper, and nothing else sends anything.
C15_OneMessagePerTransition ==
    [][/\ MessagesCommon
       /\ AcceptedNow => Sent = <<1, 0>>
       /\ ArmedNow(2) => Sent = <<1, 0>>]_vars

\* C15 as amended: as claimed, except that a settlement sends exactly two chat
\* messages (the line about the weapons and the line about the result), and
\* that an accept which leaves the duel with a single participant (the
\* initiator accepting the own open duel) sends none, as does the weapon-choice
\* continuation of such a duel once its participant holds a weapon.
C15_MessagesPerTransition ==
    [][/\ MessagesCommon
       /\ AcceptedNow => Sent = <<IF Len(sys'.duels[last'.duel].participants) = 1 THEN 0 ELSE 1, 0>>
       /\ ArmedNow(2) => Sent = <<2, 0>>
       /\ ArmedNow(1) => Sent = <<0, 0>>]_vars

\* A duel accepted once has just been settled: four chat messages (challenge,
\* time to duel, the weapons, the result) and one whisper to each participant.
C15_Witness ==
    /\ last.op = "waitForWeaponChoice"
    /\ Settled(last.duel)
    /\ hist[last.duel].deduct = 1
    /\ chat[last.duel]["weaponWin"] = 1
    /\ chat[last.duel]["wins"] = 1
    /\ AllChat(State) = 4
    /\ AllWhispers(State) = 2

\* C16: policy veto.  When the bankheist command of a user with a valid wager
\* finds no Open bankheist and startEvent vetoes the new one, the rejection
\* string is sent once and nothing else changes: no bankheist is created or
\* registered and no timer started.  When startEvent returns the event, the
\* bankheist is registered with its participation timer and no rejection is sent.
C16_PolicyVeto ==
    \A i \in HeistInputs :
        (validatePoints(State, i[1], i[2]).ok /\ heistInProgress(State) = 0) =>
            LET s2 == BankheistCommand(State, i[1], i[2])
                veto == heistVeto(State)
                h == Len(heists) + 1
            IN IF veto # ""
               THEN /\ veto \in {"heistUnderway", "heistCooldown"}
                    /\ s2 = [State EXCEPT !.heistMsgs[veto] = @ + 1]
               ELSE /\ s2.heistMsgs = [heistMsgs EXCEPT !["heistStarted"] = @ + 1]
                    /\ s2.heists = Append(heists, NewBankheistEvent(i[1], i[2]))
                    /\ s2.runningEvents = Append(runningEvents, HeistRef(h))
                    /\ s2.hpTimer = Append(hpTimer, TRUE)
                    /\ s2.hcTimers = Append(hcTimers, 0)

\* A !bankheist has just been vetoed by the bankheist that is cooling down,
\* while a duel is waiting for its answer.
C16_Witness ==
    /\ last.op = "bankheist"
    /\ heistMsgs["heistCooldown"] = 1
    /\ Len(heists) = 1
    /\ heists[1].state = "Ended"
    /\ hcTimers[1] = 1
    /\ \E d \in DuelIds : InRegistry(d)


----------------------------------------------------------------------------
(* SongService: songs and song ids as arguments *)

\* C17: called with a song object that is in the queue, as addSong returned
\* it, songPlayed, removeSong and moveSongToTop each have the same effect on
\* the queue as when called with the id of that song.
C17_ObjectSameAsId ==
    \A o \in ReturnedSongs :
        /\ songPlayed(svc, Obj(o)).songQueue = songPlayed(svc, Num(o.id)).songQueue
        /\ removeSong(svc, Obj(o)).songQueue = removeSong(svc, Num(o.id)).songQueue
        /\ moveSongToTop(svc, Obj(o)).songQueue = moveSongToTop(svc, Num(o.id)).songQueue

\* The pairs of ids of songs other than n, the first before the second in the queue.
OthersInOrder(queue, n) ==
    {p \in SongIds \X SongIds :
        /\ p[1] # n /\ p[2] # n
        /\ indexOfId(queue, p[1]) # 0
        /\ indexOfId(queue, p[1]) < indexOfId(queue, p[2])}

\* C18: moveSongToTop(id) for an id in the queue puts that song at index 0
\* and keeps the other songs in their relative order, the length of the
\* queue and the set of queued songs; for an id not in the queue it changes
\* neither the queue nor anything else, and sends no websocket message.
C18_MoveToTop ==
    \A n \in SongIds :
        LET queue == svc.songQueue
            moved == moveSongToTop(svc, Num(n))
        IN IF \E i \in 1..Len(queue) : queue[i].id = n
           THEN /\ moved.songQueue[1].id = n
                /\ Len(moved.songQueue) = Len(queue)
                /\ {moved.songQueue[i] : i \in 1..Len(queue)} = {queue[i] : i \in 1..Len(queue)}
                /\ OthersInOrder(moved.songQueue, n) = OthersInOrder(queue, n)
                /\ moved.sent["SongMovedToTop"] = svc.sent["SongMovedToTop"] + 1
           ELSE /\ moved.songQueue = queue
                /\ moved.sent = svc.sent

\* The last of three queued songs has been moved to the top by its id.
C18_Witness ==
    /\ svc.lastMove = 3
    /\ Len(svc.songQueue) = 3
    /\ svc.sent["SongMovedToTop"] = 1

----------------------------------------------------------------------------
(* SongService: gold song requests *)

\* The VIP week of user u that day d falls in, named by its first day.
VipWeek(u, d) == getIndividualStartOfWeek(d, svc.users[u].vipExpiry)

\* The users whose VIP weeks are defined: those with an expiry date.
WeeklyUsers == {u \in SongUsers : svc.users[u].vipExpiry # NoDate}

\* C19: a user gets at most one gold song request per individual VIP week:
\* no two successful addGoldSong calls of a user are dated in the same VIP
\* week, overlapping calls included, and once one has succeeded a further
\* call in that week is answered with "already had a gold song request this
\* week".
C19_OneGoldPerWeek ==
    /\ \A i, j \in 1..Len(svc.goldLog) :
           (/\ i < j
            /\ svc.goldLog[i].user = svc.goldLog[j].user
            /\ svc.goldLog[i].user \in WeeklyUsers)
           => VipWeek(svc.goldLog[i].user, svc.goldLog[i].date)
                  # VipWeek(svc.goldLog[j].user, svc.goldLog[j].date)
    /\ \A i \in 1..Len(svc.goldLog) :
           (/\ svc.goldLog[i].user \in WeeklyUsers
            /\ VipWeek(svc.goldLog[i].user, svc.goldLog[i].date)
                   = VipWeek(svc.goldLog[i].user, svc.today))
           => goldVeto(svc, svc.goldLog[i].user) = "alreadyThisWeek"

----------------------------------------------------------------------------
(* UserPermissionService *)

\* C20: updateUserLevels changes no user level and does not call updateUser
\* when the moderator lookup or the subscriber lookup returns undefined.
C20_UndeterminedKeepsLevel ==
    \A t \in 1..Len(ups.tasks) :
        /\ ups.tasks[t].pc = "isUserModded"
           => /\ moddedAnswer(ups, t, "undefined").levels = ups.levels
              /\ moddedAnswer(ups, t, "undefined").updates = ups.updates
        /\ ups.tasks[t].pc = "isUserSubbed"
           => /\ subbedAnswer(ups, t, "undefined").levels = ups.levels
              /\ subbedAnswer(ups, t, "undefined").updates = ups.updates

----------------------------------------------------------------------------
(* Duels: who takes part *)

\* C21: the participants of a duel are pairwise distinct users, and a duel
\* that has been accepted has exactly two of them: the initiator cannot accept
\* the own open duel, an !accept of the initiator changes nothing.
C21_DistinctParticipants ==
    /\ \A d \in DuelIds :
          /\ \A i, j \in 1..Len(duels[d].participants) :
                i # j => duels[d].participants[i].user # duels[d].participants[j].user
          /\ hist[d].deduct >= 1 => Len(duels[d].participants) = 2
    /\ \A u \in Users :
          LET d == acceptTarget(State, u)
          IN (d # 0 /\ Initiator(d) = u) => AcceptCommand(State, u) = State

\* The duel was created with a named target (start() announced a challenge).
Targeted(d) == chat[d]["challenge"] >= 1

----------------------------------------------------------------------------
(* Duels: the balances *)

\* What a duel's handler, taking State to s2, has added to the balance of user u.
Gain(s2, u) == s2.points[u] - points[u]

\* C23: points are escrowed only at acceptance.  Creating and starting a
\* duel, a weapon command, a rejected accept, the participation-period
\* callback and the cooldown callback change no balance; a successful accept
\* deducts the wager from both participants and from nobody else; the
\* weapon-choice continuation changes the balances of the participants only,
\* by a refund or a payout.
C23_EscrowOnlyAtAcceptance ==
    /\ \A i \in DuelInputs : DuelCommand(State, i[1], i[2], i[3]).points = points
    /\ \A i \in WeaponInputs : WeaponCommand(State, i[1], i[2], i[3]).points = points
    /\ \A d \in DuelIds :
          /\ participationPeriodEnded(State, d).points = points
          /\ onCooldownComplete(stopEvent(State, d), d).points = points
          /\ wTimers[d] > 0 =>
                \A u \in Users :
                    Gain(waitForWeaponChoice(State, d), u) \in
                        IF getParticipant(duels[d], u) = 0 THEN {0}
                        ELSE {0, duels[d].wager, 2 * duels[d].wager,
                              duels[d].wager - chewsLost(duels[d].wager)}
    /\ \A u \in Users :
          LET d == acceptTarget(State, u)
              s2 == AcceptCommand(State, u)
          IN IF d = 0 \/ ~canAccept(State, d, u).ok
             THEN s2.points = points
             ELSE /\ Len(s2.duels[d].participants) = 2
                  /\ \A x \in Users :
                        Gain(s2, x) = IF getParticipant(s2.duels[d], x) # 0
                                      THEN -duels[d].wager ELSE 0

----------------------------------------------------------------------------
(* Duels: settlement *)

\* The history of duel d before the step; a duel the step creates has none.
HistBefore(d) == IF d <= Len(sys.duels) THEN sys.hist[d] ELSE NoHist

\* C24: a duel is settled (startDuel: payout and start of the cooldown) only
\* by the continuation of waitForWeaponChoice, when a weapon-selection delay
\* started by a successful accept elapses, on a duel that was accepted and
\* whose two participants both hold a weapon other than None; no other step
\* settles a duel.
C24_SettlementOnlyAfterDelay ==
    [][\A d \in 1..Len(sys'.duels) :
          (\/ sys'.hist[d].payout # HistBefore(d).payout
           \/ sys'.hist[d].cooldowns # HistBefore(d).cooldowns)
          => /\ last' = [op |-> "waitForWeaponChoice", duel |-> d]
             /\ sys.wTimers[d] > 0
             /\ sys'.wTimers[d] = sys.wTimers[d] - 1
             /\ sys.hist[d].deduct >= 1
             /\ Len(sys.duels[d].participants) = 2
             /\ sys.duels[d].participants[2].accepted
             /\ \A i \in 1..2 : sys.duels[d].participants[i].weapon \in Weapons
             /\ sys'.hist[d].payout = sys.hist[d].payout + 1
             /\ sys'.hist[d].cooldowns = sys.hist[d].cooldowns + 1
             /\ sys'.cTimers[d] = sys.cTimers[d] + 1]_vars

\* A weapon-selection delay has elapsed and the duel was settled, for the first time.
C24_Witness ==
    /\ last.op = "waitForWeaponChoice"
    /\ hist[last.duel].payout = 1
    /\ cTimers[last.duel] = 1
    /\ duels[last.duel].state = "Ended"
    /\ \A i \in 1..2 : duels[last.duel].participants[i].weapon \in Weapons

----------------------------------------------------------------------------
(* Duels and bankheists side by side *)

\* What belongs to the duels and what to the bankheists in state s.
DuelPart(s) == <<s.duels, s.pTimer, s.wTimers, s.cTimers,
                 SelectSeq(s.runningEvents, LAMBDA e : e.kind = "duel")>>
HeistPart(s) == <<s.heists, s.hpTimer, s.hcTimers,
                  SelectSeq(s.runningEvents, LAMBDA e : e.kind = "heist")>>

\* C25: events of different kinds are independent.  A duel's
\* checkForOngoingEvent allows the start when the running event is a
\* bankheist, with an empty message; no command and no callback of the duels
\* changes the state, participants, timers or registry entries of a
\* bankheist, and none of the bankheists changes those of a duel.
C25_KindsIndependent ==
    /\ \A i \in 1..Len(runningEvents) :
          runningEvents[i].kind = "heist"
          => checkForOngoingEvent(State, runningEvents[i]) = [allowed |-> TRUE, msg |-> ""]
    /\ \A i \in DuelInputs :
          HeistPart(DuelCommand(State, i[1], i[2], i[3])) = HeistPart(State)
    /\ \A u \in Users : HeistPart(AcceptCommand(State, u)) = HeistPart(State)
    /\ \A i \in WeaponInputs :
          HeistPart(WeaponCommand(State, i[1], i[2], i[3])) = HeistPart(State)
    /\ \A d \in DuelIds :
          /\ HeistPart(participationPeriodEnded(State, d)) = HeistPart(State)
          /\ wTimers[d] > 0 => HeistPart(waitForWeaponChoice(State, d)) = HeistPart(State)
          /\ HeistPart(onCooldownComplete(stopEvent(State, d), d)) = HeistPart(State)
    /\ \A i \in HeistInputs :
          DuelPart(BankheistCommand(State, i[1], i[2])) = DuelPart(State)
    /\ \A h \in 1..Len(heists) :
          /\ DuelPart(heistParticipationPeriodEnded(State, h)) = DuelPart(State)
          /\ DuelPart(heistCooldownComplete(State, h)) = DuelPart(State)

\* A duel has been started while a bankheist is open: both are live.
C25_Witness ==
    /\ last.op = "duel"
    /\ last.duel # 0
    /\ duels[last.duel].state \in {"Open", "BoardingCompleted"}
    /\ \E h \in 1..Len(heists) : heists[h].state = "Open" /\ hpTimer[h]

----------------------------------------------------------------------------
(* The accept and weapon commands beside events of another kind.             *)

\* C26: the accept and weapon commands act on duel events only: with events of
\* another kind running, the event an accept or weapon command calls a duel
\* operation on is never a bankheist, and the command leaves every bankheist's
\* state and participants and, unless a duel is accepted, every balance as
\* they were.
C26_OnlyDuelEvents ==
    /\ \A u \in Users :
          /\ acceptEvent(State, u).kind # "heist"
          /\ HeistPart(AcceptCommand(State, u)) = HeistPart(State)
          /\ acceptTarget(State, u) = 0 => AcceptCommand(State, u).points = State.points
    /\ \A u \in Users, w \in {"rock", "paper", "scissors"} :
          /\ weaponEvent(State, u, w).kind # "heist"
          /\ HeistPart(WeaponCommand(State, "", u, w)) = HeistPart(State)
          /\ WeaponCommand(State, "", u, w).points = State.points

----------------------------------------------------------------------------
(* Who a whispered weapon choice reaches.                                    *)

\* The running duels in their selection window that user takes part in.
InSelection(u) ==
    {d \in DuelIds : /\ InRegistry(d)
                     /\ duels[d].state = "BoardingCompleted"
                     /\ \E i \in 1..Len(duels[d].participants) : duels[d].participants[i].user = u}

\* C27: a whispered weapon choice sets the weapon only for a participant of a
\* duel in state BoardingCompleted, and the confirmation whisper goes out
\* exactly when a weapon was set.  A user taking part in no such duel changes
\* nothing and gets no whisper, and nobody's choice changes the weapon of
\* another participant or sends a whisper to another user.
C27_WeaponOnlyForParticipant ==
    \A u \in Users :
        LET sel == InSelection(u)
        IN IF sel = {}
           THEN \A w \in Weapons : chooseWeapon(State, "", u, w) = State
           ELSE \A w \in Weapons : \A s2 \in {chooseWeapon(State, "", u, w)} :
                      /\ s2.whispers = [whispers EXCEPT ![u] = @ + 1]
                      /\ \E d \in sel : \E i \in 1..Len(duels[d].participants) :
                            /\ duels[d].participants[i].user = u
                            /\ s2.duels[d].participants[i].weapon = w
                      /\ \A d \in DuelIds : \A i \in 1..Len(duels[d].participants) :
                            \/ s2.duels[d].participants[i].weapon = duels[d].participants[i].weapon
                            \/ /\ duels[d].participants[i].user = u
                               /\ d \in sel
                               /\ s2.duels[d].participants[i].weapon = w

\* A participant's whispered choice has just been set and confirmed while the
\* other participant of the same duel still has no weapon.
C27_Witness ==
    /\ last.op = "weapon"
    /\ last.duel # 0
    /\ duels[last.duel].state = "BoardingCompleted"
    /\ Len(duels[last.duel].participants) = 2
    /\ \E i, j \in 1..2 :
          /\ duels[last.duel].participants[i].weapon \in Weapons
          /\ whispers[duels[last.duel].participants[i].user] >= 1
          /\ duels[last.duel].participants[j].weapon = WeaponNone

----------------------------------------------------------------------------
(* Joining a bankheist.                                                      *)

\* The wagers a !bankheist is tried with: none, one everybody can pay, one
\* only some can pay.
JoinWagers == {0, 5, 20}

\* C28: bankheist join.  With a valid wager while a bankheist in state Open is
\* running the user is appended to that bankheist's participants and no
\* bankheist is created or started; a user who had already joined leaves the
\* participants unchanged and gets the already-joined message.  With an invalid
\* wager the command only sends the validation message.
C28_BankheistJoin ==
    \A u \in Users, w \in JoinWagers :
        LET s2 == BankheistCommand(State, u, w)
            h == heistInProgress(State)
            result == validatePoints(State, u, w)
            joined == \E i \in 1..Len(heists[h].participants) : heists[h].participants[i].user = u
        IN /\ (w <= 0 \/ points[u] < w) =>
                 /\ ~result.ok
                 /\ result.msg \in {"invalidWager", "notEnoughChews"}
                 /\ s2 = [State EXCEPT !.heistMsgs[result.msg] = @ + 1]
           /\ (w > 0 /\ points[u] >= w /\ h # 0) =>
                 /\ heists[h].state = "Open"
                 /\ IF joined
                    THEN s2 = [State EXCEPT !.heistMsgs["alreadyJoined"] = @ + 1]
                    ELSE /\ s2.heists[h].participants =
                               Append(heists[h].participants, [user |-> u, wager |-> w])
                         /\ s2.heistMsgs = heistMsgs
                 /\ Len(s2.heists) = Len(heists)
                 /\ \A k \in 1..Len(heists) :
                       /\ s2.heists[k].state = heists[k].state
                       /\ k # h => s2.heists[k] = heists[k]
                 /\ s2.runningEvents = runningEvents
                 /\ s2.hpTimer = hpTimer
                 /\ s2.hcTimers = hcTimers

\* A second user has joined the open bankheist and a repeated !bankheist of a
\* user who is in it has just been answered with the already-joined message.
C28_Witness ==
    /\ last.op = "bankheist"
    /\ heistMsgs["alreadyJoined"] >= 1
    /\ \E h \in 1..Len(heists) :
          /\ heists[h].state = "Open"
          /\ Len(heists[h].participants) = 2
    /\ Len(heists) = 1

----------------------------------------------------------------------------
(* SongService: one entry per song.                                          *)

\* C29: the song queue never holds two songs with the same source and
\* sourceId, whatever the order of the addSong calls and of the answers they
\* await.
C29_NoDuplicateSong ==
    \A i, j \in 1..Len(svc.songQueue) :
        (/\ svc.songQueue[i].source = svc.songQueue[j].source
         /\ svc.songQueue[i].sourceId = svc.songQueue[j].sourceId) => i = j

----------------------------------------------------------------------------
(* SongService: taking a song out of the queue by its id.                    *)

\* The queue without the songs of id n, the others in their order.
Without(queue, n) == SelectSeq(queue, LAMBDA item : item.id # n)

\* What one call sent to the websocket: the messages of the given type rise
\* by count, the others stay.
SentMore(v2, type, count) == v2.sent = [svc.sent EXCEPT ![type] = @ + count]

\* C30: removeSong(id) and songPlayed(id) for an id in the queue take exactly
\* that one song out, keep the other songs in their order and send one
\* websocket message; for an id that is not in the queue the queue is as it
\* was and nothing is sent or logged.
C30_RemoveById ==
    \A n \in 0..(MaxSongIds + 1) :
        LET queue == svc.songQueue
            removed == removeSong(svc, Num(n))
            played == songPlayed(svc, Num(n))
        IN IF \E i \in 1..Len(queue) : queue[i].id = n
           THEN /\ removed.songQueue = Without(queue, n)
                /\ Len(removed.songQueue) = Len(queue) - 1
                /\ SentMore(removed, "SongRemoved", 1)
                /\ played.songQueue = Without(queue, n)
                /\ Len(played.songQueue) = Len(queue) - 1
                /\ SentMore(played, "SongPlayed", 1)
           ELSE /\ removed = svc
                /\ played = svc

\* One song has been removed by its id and one marked as played by its id,
\* each from a queue with other songs in it, and a third song is still queued.
C30_Witness ==
    /\ svc.sent["SongRemoved"] = 1
    /\ svc.sent["SongPlayed"] = 1
    /\ svc.sent["SongAdded"] = 3
    /\ Len(svc.songQueue) = 1
    /\ svc.tasks = <<>>

----------------------------------------------------------------------------
(* SongService: a failed addSong.                                            *)

\* The URLs addSong is called with.
SongUrls == {YoutubeUrl, SpotifyUrl, SecondYoutubeUrl, OtherUrl}

\* C31: whenever addSong fails, the song queue is as it was before the call
\* and no SongAdded message was sent for the song: a call that throws before
\* its first await leaves the queue and the websocket as they are, and after
\* a call that throws at one of its awaits the song of that call is not in the
\* queue.
C31_FailedAddSongUndone ==
    /\ \A url \in SongUrls :
          LET r == addSongStart(svc, url)
          IN r.thrown # "" => /\ r.v.songQueue = svc.songQueue
                              /\ r.v.sent = svc.sent
    /\ \A t \in 1..Len(svc.tasks) :
          LET v2 == addSongThrows(svc, t)
          IN /\ indexOfId(v2.songQueue, svc.tasks[t].song.id) = 0
             /\ svc.tasks[t].pc = "details" => /\ v2.songQueue = svc.songQueue
                                               /\ v2.sent = svc.sent

----------------------------------------------------------------------------
(* SongService: a gold song request that is turned down or fails.            *)

\* What addGoldSong may change of a user, and the calls of updateUser.
GoldAccount(v) == [users |-> v.users, updates |-> v.updates, goldLog |-> v.goldLog]

\* The same state on the day the VIP status of user u expires.
OnExpiryDay(u) == [svc EXCEPT !.today = svc.users[u].vipExpiry]

\* C32: a rejected or failed gold song request leaves the user unchanged.
\* When addGoldSong returns a rejection string, or addSong throws, the user's
\* vipLastRequest and vipPermanentRequests keep their values, updateUser is
\* not called and no song is added; and a user whose vipExpiry is today is
\* not rejected as expired.
C32_FailedGoldRequest ==
    /\ \A u \in SongUsers, url \in SongUrls :
          LET v2 == addGoldSongStart(svc, url, u)
          IN (goldVeto(svc, u) # "" \/ addSongStart(svc, url).thrown # "") =>
                 /\ GoldAccount(v2) = GoldAccount(svc)
                 /\ v2.songQueue = svc.songQueue
                 /\ v2.tasks = svc.tasks
                 /\ v2.sent = svc.sent
    /\ \A t \in 1..Len(svc.tasks) :
          LET v2 == addSongThrows(svc, t)
          IN svc.tasks[t].requestSource = "GoldSong" =>
                 /\ GoldAccount(v2) = GoldAccount(svc)
                 /\ indexOfId(v2.songQueue, svc.tasks[t].song.id) = 0
    /\ \A u \in SongUsers :
          svc.users[u].vipExpiry # NoDate => goldVeto(OnExpiryDay(u), u) # "expired"

----------------------------------------------------------------------------
(* SongService: what a gold song request costs.                              *)

\* C33: a successful addGoldSong sets the user's vipLastRequest to the day of
\* the request (todayDate) and takes exactly one off vipPermanentRequests when
\* that is positive, leaving it at zero otherwise; it changes nothing else of
\* any user and calls updateUser once.  vipPermanentRequests is never
\* negative, whatever gold song requests were made.
C33_GoldRequestSpent ==
    /\ \A t \in 1..Len(svc.tasks) :
          (svc.tasks[t].pc = "log" /\ svc.tasks[t].requestSource = "GoldSong") =>
              LET task == svc.tasks[t]
                  u == task.username
                  before == svc.users[u]
                  v2 == goldDone(addSongThrows(svc, t), u, task.todayDate)
              IN /\ task.todayDate \in 1..svc.today
                 /\ v2.users[u].vipLastRequest = task.todayDate
                 /\ v2.users[u].vipPermanentRequests =
                        IF before.vipPermanentRequests > 0
                        THEN before.vipPermanentRequests - 1 ELSE 0
                 /\ v2.users[u].vipExpiry = before.vipExpiry
                 /\ \A o \in SongUsers \ {u} : v2.users[o] = svc.users[o]
                 /\ v2.updates = svc.updates + 1
    /\ \A u \in SongUsers : svc.users[u].vipPermanentRequests >= 0

\* Two gold song requests have succeeded: one of a user with permanent
\* requests, who has one less, and one of a user with none, who still has none.
C33_Witness ==
    /\ Len(svc.goldLog) >= 2
    /\ svc.users["bob"].vipPermanentRequests = 1
    /\ svc.users["bob"].vipLastRequest # NoDate
    /\ svc.users["alice"].vipPermanentRequests = 0
    /\ svc.users["alice"].vipLastRequest # NoDate
    /\ svc.updates = Len(svc.goldLog)

====
